---- MODULE Spec2Model ----
\* Model of the VectorSpaceModel crate: sparse vectors, the term store builder,
\* the inverted index (dimension -> vector IDs), the vector store and the
\* IndexBuilder pipeline.
EXTENDS Integers, Sequences, FiniteSets, TLC

VARIABLES
    phase,          \* position of the modelled program
    vectors,        \* IndexBuilder.vectors
    terms,          \* TermStoreBuilder.terms      (text -> insertion id)
    doc_freq,       \* TermStoreBuilder.doc_freq   (insertion id -> count)
    term_freq,      \* TermStoreBuilder.term_freq  (<<id, doc>> -> count)
    order_map,      \* TermStoreBuilder.order_map  (insertion id -> sorted pos)
    output_filter,  \* IndexBuilder.output_filter
    calls,          \* the insert calls made so far (arguments)
    returned,       \* the values those calls returned
    indexer,        \* Index.indexer: records of the built TermIndexer
    vector_store,   \* Index.vector_store: encoded vectors of the built store
    map,            \* NewDimVecMap.map handed to NewDimVecMap::build
    inv_index,      \* the InvertedIndex bound to the vector store
    query,          \* last lookup made on the inverted index and its result
    sparse,         \* raw pairs handed to Vector::create_new_raw (kept while
                    \* the vector made from them is untouched)
    vec,            \* the Vector under test
    other,          \* a second Vector, the argument of a binary operation
    value,          \* the value handed to an encoder
    bytes,          \* encoded bytes: a record, or the entries of an archive
    result,         \* what the last pure operation or decoder returned; after
                    \* a weighted build, what the TermWeight was called with
    metadata,       \* Index.metadata
    future,         \* the AsyncDocRetrieval behind load_vecs_async
    waker           \* whether the task was woken since its last poll

vars == <<phase, vectors, terms, doc_freq, term_freq, order_map, output_filter,
          calls, returned, indexer, vector_store, map, inv_index, query,
          sparse, vec, other, value, bytes, result, metadata, future, waker>>

\* The variables of the two-vector operations, the codecs and the metadata.
pureVars == <<other, value, bytes, result, metadata>>

\* The variables of the asynchronous retrieval.
asyncVars == <<future, waker>>

----------------------------------------------------------------------------
\* Bounds

\* Vector inputs: at most MaxPairs pairs, dims 0..MaxVecDim, weights
\* 1..MaxWeight.
MaxPairs == 3
MaxVecDim == 1
MaxWeight == 2

VecDims == 0..MaxVecDim
Weights == 1..MaxWeight

\* Inverted-index inputs: dims 0..MaxDim, vector IDs 0..MaxVecId, at most
\* MaxMapIds IDs pushed in total; lookups for at most MaxQuery dimensions.
MaxDim == 2
MaxVecId == 1
MaxMapIds == 2
MaxQuery == 2

MapDims == 0..MaxDim
VecIds == 0..MaxVecId
\* Lookups also ask for one dimension beyond the largest possible key.
QueryDims == 0..(MaxDim + 1)

\* Builder inputs: at most MaxDocs insert calls that pass at most
\* MaxTotalTerms terms in total; a filter drops documents among 0..MaxDropDoc.
MaxDocs == 2
MaxTotalTerms == 3
MaxDropDoc == 0

\* Term texts as byte strings: "b" and "ab". Their byte-lexicographic order
\* ("ab" < "b") differs from their order by length.
Terms == {<<98>>, <<97, 98>>}
\* Weights a caller passes to insert_new_weighted_vec.
CallWeights == {2}

----------------------------------------------------------------------------
\* Generic helpers

None == <<>>
Some(x) == <<x>>

\* Result<T, Error>
Ok(x) == [ok |-> TRUE, val |-> x]
Err(e) == [ok |-> FALSE, val |-> e]

Min(a, b) == IF a < b THEN a ELSE b

SeqsUpTo(S, n) == UNION {[1..k -> S] : k \in 0..n}

Range(s) == {s[i] : i \in 1..Len(s)}

\* The elements of s whose index is in I, in index order.
SubSeqByIndices(s, I) ==
    [k \in 1..Cardinality(I) |->
        s[CHOOSE i \in I : Cardinality({j \in I : j <= i}) = k]]

\* slice::sort_by / sort_unstable on integer keys, keys[i] being the key of
\* s[i]: a stable sort (equal keys keep their order).
StableSortByKey(s, keys) ==
    LET pos(i) == 1 + Cardinality({j \in 1..Len(s) :
                        keys[j] < keys[i] \/ (keys[j] = keys[i] /\ j < i)})
    IN [k \in 1..Len(s) |-> s[CHOOSE i \in 1..Len(s) : pos(i) = k]]

\* Vec::dedup / dedup_by on keys: drops every element whose key equals the
\* key of the element kept before it; the first of a run is kept.
DedupByKey(s, keys) ==
    SubSeqByIndices(s, {i \in 1..Len(s) : i = 1 \/ keys[i] # keys[i - 1]})

\* The dims of a list of (dim, weight) pairs.
Dims(s) == [i \in 1..Len(s) |-> s[i][1]]

\* The enumerations of a set: every order a hash container may iterate in.
SeqsOfSet(S) == {s \in [1..Cardinality(S) -> S] : Range(s) = S}

\* Ordering of str: byte-lexicographic, a proper prefix is smaller.
LexLess(a, b) ==
    \E i \in 1..(Min(Len(a), Len(b)) + 1) :
        /\ \A j \in 1..(i - 1) : a[j] = b[j]
        /\ \/ i > Len(a) /\ i <= Len(b)
           \/ i <= Len(a) /\ i <= Len(b) /\ a[i] < b[i]

\* Variant that leaves the list in the iteration order of the hash map.
SortByText_unsorted(s) == s

\* term_vec.sort_by(|a, b| a.0.cmp(&b.0)): stable sort of (term, id) by text.
SortByText(s) ==
    LET pos(i) == 1 + Cardinality({j \in 1..Len(s) :
                        LexLess(s[j][1], s[i][1])
                        \/ (~LexLess(s[i][1], s[j][1]) /\ j < i)})
    IN [k \in 1..Len(s) |-> s[CHOOSE i \in 1..Len(s) : pos(i) = k]]

Dim(p) == p[1]
Weight(p) == p[2]

IsStrictlyAscending(s) == \A i \in 1..(Len(s) - 1) : s[i] < s[i + 1]

----------------------------------------------------------------------------
\* vector.rs: Vector

\* Sum of the squared weights. The cached length is kept squared (the norm is
\* its square root), weights are small integers.
RECURSIVE SumSq(_)
SumSq(s) == IF s = <<>> THEN 0 ELSE Weight(s[1]) * Weight(s[1]) + SumSq(Tail(s))

calc_len(v) == SumSq(v.inner)

sort_nodedup(v) == [v EXCEPT !.inner = StableSortByKey(v.inner, Dims(v.inner))]

sort(v) ==
    LET sorted == StableSortByKey(v.inner, Dims(v.inner))
    IN [v EXCEPT !.inner = DedupByKey(sorted, Dims(sorted))]

update(v) == sort([v EXCEPT !.length = calc_len(v)])

create_new_raw(sp) ==
    update([inner |-> StableSortByKey(sp, Dims(sp)), length |-> 0])

new_empty == [inner |-> <<>>, length |-> 0]

vec_indices(v) == [i \in 1..Len(v.inner) |-> Dim(v.inner[i])]

delete_dim(v, dim) ==
    [v EXCEPT !.inner = SelectSeq(v.inner, LAMBDA p : Dim(p) # dim)]

\* No retrieval was started.
InitFuture ==
    /\ future = <<>>
    /\ waker = FALSE

\* Nothing encoded, decoded or compared yet.
InitPure ==
    /\ other = new_empty
    /\ value = <<>>
    /\ bytes = <<>>
    /\ result = <<>>
    /\ metadata = <<>>

----------------------------------------------------------------------------
\* Vector operations as steps (specification SpecVec)

Pairs == VecDims \X Weights

CreateNewRaw ==
    /\ phase = "vec_input"
    /\ vec' = create_new_raw(sparse)
    /\ phase' = "vec_updated"
    /\ UNCHANGED pureVars
    /\ UNCHANGED <<vectors, terms, doc_freq, term_freq, order_map, output_filter,
                   calls, returned, indexer, vector_store, map, inv_index,
                   query, sparse>>
    /\ UNCHANGED asyncVars

\* A caller rewrites one pair in place through sparse_iter_mut.
SparseIterMut ==
    /\ phase \in {"vec_updated", "vec_dirty"}
    /\ \E i \in 1..Len(vec.inner), p \in Pairs :
          vec' = [vec EXCEPT !.inner[i] = p]
    /\ phase' = "vec_dirty"
    /\ sparse' = <<>>
    /\ UNCHANGED pureVars
    /\ UNCHANGED <<vectors, terms, doc_freq, term_freq, order_map, output_filter,
                   calls, returned, indexer, vector_store, map, inv_index,
                   query>>
    /\ UNCHANGED asyncVars

DeleteDim ==
    /\ phase \in {"vec_updated", "vec_dirty"}
    /\ \E d \in VecDims : vec' = delete_dim(vec, d)
    /\ phase' = "vec_dirty"
    /\ sparse' = <<>>
    /\ UNCHANGED pureVars
    /\ UNCHANGED <<vectors, terms, doc_freq, term_freq, order_map, output_filter,
                   calls, returned, indexer, vector_store, map, inv_index,
                   query>>
    /\ UNCHANGED asyncVars

Update ==
    /\ phase = "vec_dirty"
    /\ vec' = update(vec)
    /\ phase' = "vec_updated"
    /\ UNCHANGED pureVars
    /\ UNCHANGED <<vectors, terms, doc_freq, term_freq, order_map, output_filter,
                   calls, returned, indexer, vector_store, map, inv_index,
                   query, sparse>>
    /\ UNCHANGED asyncVars

InitVec ==
    /\ InitPure
    /\ phase = "vec_input"
    /\ sparse \in SeqsUpTo(Pairs, MaxPairs)
    /\ vec = new_empty
    /\ vectors = <<>>
    /\ terms = <<>>
    /\ doc_freq = <<>>
    /\ term_freq = <<>>
    /\ order_map = <<>>
    /\ output_filter = None
    /\ calls = <<>>
    /\ returned = <<>>
    /\ indexer = <<>>
    /\ vector_store = <<>>
    /\ map = <<>>
    /\ inv_index = [index |-> <<>>, data |-> <<>>]
    /\ query = None
    /\ InitFuture

NextVec == CreateNewRaw \/ SparseIterMut \/ DeleteDim \/ Update

SpecVec == InitVec /\ [][NextVec]_vars


----------------------------------------------------------------------------
\* inv_index.rs: NewDimVecMap::build and InvertedIndex

\* map.entry(dim).or_default().push(id) for every dim of dims.
RECURSIVE PushDims(_, _, _)
PushDims(m, dims, id) ==
    IF dims = <<>> THEN m
    ELSE PushDims(IF Head(dims) \in DOMAIN m
                  THEN [m EXCEPT ![Head(dims)] = Append(@, id)]
                  ELSE m @@ (Head(dims) :> <<id>>),
                  Tail(dims), id)

\* sorted_map.sort_by(|a, b| a.0.cmp(&b.0)) on the keys as map.iter() yields
\* them.
sorted_map(keys) == StableSortByKey(keys, keys)

\* sorted_map: the keys of the map in ascending order.
SortedKeys(m) ==
    LET K == DOMAIN m
    IN [k \in 1..Cardinality(K) |->
           CHOOSE d \in K : Cardinality({e \in K : e <= d}) = k]

\* ld + 1..dim: one (offset, 0) entry per dimension strictly between the
\* previous key and this one.
RECURSIVE Pad(_, _)
Pad(acc, n) ==
    IF n <= 0 THEN acc
    ELSE Pad([file_index |-> Append(acc.file_index, Len(acc.map_store)),
              map_store |-> Append(acc.map_store, 0)], n - 1)

PadBetween(acc, last_dim, dim, first) ==
    Pad(acc, IF first THEN 0 ELSE dim - last_dim - 1)

sort_unstable(vecs) == StableSortByKey(vecs, vecs)

\* Body of the loop over sorted_map, from its i-th entry on.
RECURSIVE BuildLoop(_, _, _, _, _)
BuildLoop(m, keys, i, last_dim, acc) ==
    IF i > Len(keys) THEN acc
    ELSE LET dim    == keys[i]
             padded == PadBetween(acc, last_dim, dim, i = 1)
             vecs   == sort_unstable(m[dim])
         IN BuildLoop(m, keys, i + 1, dim,
               [file_index |-> Append(padded.file_index, Len(padded.map_store)),
                map_store  |-> padded.map_store \o <<Len(vecs)>> \o vecs])

NewDimVecMap_build(m) ==
    LET acc == BuildLoop(m, SortedKeys(m), 1, 0,
                         [file_index |-> <<>>, map_store |-> <<>>])
    IN [index |-> acc.file_index, data |-> acc.map_store]

\* indexed_file Index::get2: the offset stored for position pos, if any.
get2(index, pos) == IF pos < Len(index) THEN Some(index[pos + 1]) ELSE None

\* BufCVecRef::get_buffered: the element at position pos, if any.
get_buffered(data, pos) == IF pos < Len(data) THEN Some(data[pos + 1]) ELSE None

get(inv, dim) ==
    LET arr_start == get2(inv.index, dim)
    IN IF arr_start = None THEN None
       ELSE LET start == arr_start[1]
                len   == get_buffered(inv.data, start)
            IN IF len = None THEN None
               ELSE IF len[1] = 0 THEN None
               ELSE IF start + len[1] >= Len(inv.data) THEN None
               ELSE Some([k \in 1..len[1] |-> inv.data[start + 1 + k]])

has(inv, dim) == get(inv, dim) # None

\* vector_store.rs: VectorStore::get_in_dims
RECURSIVE FlattenGets(_, _)
FlattenGets(inv, dimensions) ==
    IF dimensions = <<>> THEN <<>>
    ELSE LET g == get(inv, Head(dimensions))
         IN (IF g = None THEN <<>> ELSE g[1]) \o FlattenGets(inv, Tail(dimensions))

get_in_dims_nodedup(inv, dimensions) ==
    sort_unstable(FlattenGets(inv, dimensions))

get_in_dims(inv, dimensions) ==
    LET vec_refs == sort_unstable(FlattenGets(inv, dimensions))
    IN DedupByKey(vec_refs, vec_refs)

\* VectorStore::dimension_size
dimension_size(inv, dimension) ==
    LET g == get(inv, dimension) IN IF g = None THEN 0 ELSE Len(g[1])

----------------------------------------------------------------------------
\* build/term_store.rs: TermStoreBuilder

get_term_id(ts, term) == IF term \in DOMAIN ts THEN Some(ts[term]) ELSE None

\* Variant that numbers a known term anew.
get_or_add_term_fresh(ts, term) ==
    [id |-> Cardinality(DOMAIN ts),
     terms |-> (term :> Cardinality(DOMAIN ts)) @@ ts]

\* Returns the id of the term and the map after the call.
get_or_add_term(ts, term) ==
    IF get_term_id(ts, term) # None
    THEN [id |-> ts[term], terms |-> ts]
    ELSE [id |-> Cardinality(DOMAIN ts),
          terms |-> ts @@ (term :> Cardinality(DOMAIN ts))]

\* *map.entry(key).or_default() += 1
Incr(f, key) ==
    IF key \in DOMAIN f THEN [f EXCEPT ![key] = @ + 1] ELSE f @@ (key :> 1)

\* Variant that counts an id at most once.
RECURSIVE update_doc_freq_once(_, _)
update_doc_freq_once(df, ids) ==
    IF ids = <<>> THEN df
    ELSE update_doc_freq_once(IF Head(ids) \in DOMAIN df THEN df
                              ELSE df @@ (Head(ids) :> 1), Tail(ids))

RECURSIVE update_doc_freq(_, _)
update_doc_freq(df, ids) ==
    IF ids = <<>> THEN df ELSE update_doc_freq(Incr(df, Head(ids)), Tail(ids))

update_term_freq(tf, term_id, doc_id) == Incr(tf, <<term_id, doc_id>>)

get_term_freq(tf, term_id, doc_id) ==
    IF <<term_id, doc_id>> \in DOMAIN tf THEN Some(tf[<<term_id, doc_id>>]) ELSE None

\* Variant that numbers the terms by insertion id instead of by text.
build_order_map_by_id(ts, term_vec) ==
    [id \in {ts[t] : t \in DOMAIN ts} |-> id]

\* term_vec is the (term, id) list in the iteration order of the hash map.
build_order_map(ts, term_vec) ==
    LET sorted == SortByText(term_vec)
    IN [id \in {ts[t] : t \in DOMAIN ts} |->
           (CHOOSE pos \in 1..Len(sorted) : sorted[pos][2] = id) - 1]

\* adjust_vecs without a TermWeight: every dim goes through order_map, the
\* weight is kept, the vector is rebuilt with create_new_raw.
adjust_vecs(om, ves) ==
    [i \in 1..Len(ves) |->
        [ves[i] EXCEPT !.vec =
            create_new_raw([k \in 1..Len(ves[i].vec.inner) |->
                <<om[Dim(ves[i].vec.inner[k])], Weight(ves[i].vec.inner[k])>>])]]

----------------------------------------------------------------------------
\* term_store/item.rs and term_store/mod.rs: IndexTerm and TermIndexer

u32_le(n) == <<n % 256, (n \div 256) % 256, (n \div 65536) % 256,
               (n \div 16777216) % 256>>

from_u32_le(b) == b[1] + 256 * b[2] + 65536 * b[3] + 16777216 * b[4]

IndexTerm_encode(t) == u32_le(t.doc_frequency) \o t.text

IndexTerm_decode(data) ==
    [text |-> SubSeq(data, 5, Len(data)),
     doc_frequency |-> from_u32_le(SubSeq(data, 1, 4))]

\* build_from_termstore when terms().iter() yields the terms in the order
\* list: the records sorted by their position in order_map, each encoded.
build_from_termstore_in(ts, df, om, list) ==
    LET tuples == [k \in 1..Len(list) |->
                      <<om[ts[list[k]]],
                        [text |-> list[k], doc_frequency |-> df[ts[list[k]]]]>>]
        sorted == StableSortByKey(tuples, Dims(tuples))
    IN [k \in 1..Len(sorted) |-> IndexTerm_encode(sorted[k][2])]

\* Variant that emits the terms in insertion-id order.
build_from_termstore_by_id(ts, df, om) ==
    LET ids == {ts[t] : t \in DOMAIN ts}
        text_of(id) == CHOOSE t \in DOMAIN ts : ts[t] = id
    IN [k \in 1..Cardinality(ids) |->
           IndexTerm_encode([text |-> text_of(k - 1),
                             doc_frequency |-> df[k - 1]])]

\* The records of the term indexer: the terms sorted by their position in
\* order_map, each encoded.
build_from_termstore(ts, df, om) ==
    LET list   == CHOOSE l \in SeqsOfSet(DOMAIN ts) : TRUE
        tuples == [k \in 1..Len(list) |->
                      <<om[ts[list[k]]],
                        [text |-> list[k], doc_frequency |-> df[ts[list[k]]]]>>]
        sorted == StableSortByKey(tuples, Dims(tuples))
    IN [k \in 1..Len(sorted) |-> IndexTerm_encode(sorted[k][2])]

\* doc_frequencies().get(id).unwrap() fails for a term without doc_freq entry.
build_from_termstore_panics(ts, df) == \E t \in DOMAIN ts : ts[t] \notin DOMAIN df

\* indexed_file binary_search_raw_by: binary search over the records with the
\* comparison of the decoded text against the query.
RECURSIVE binary_search(_, _, _, _)
binary_search(index, q, left, right) ==
    IF left >= right THEN None
    ELSE LET mid  == left + ((right - left) \div 2)
             text == IndexTerm_decode(index[mid + 1]).text
         IN IF text = q THEN Some(mid)
            ELSE IF LexLess(text, q) THEN binary_search(index, q, mid + 1, right)
            ELSE binary_search(index, q, left, mid)

get_term(index, term) == binary_search(index, term, 0, Len(index))

iter(index) == [i \in 1..Len(index) |-> IndexTerm_decode(index[i])]

----------------------------------------------------------------------------
\* document.rs: DocumentVector codec. A record is kept as its fields: the
\* f32 length, the u16 count, the (u24 dim, f32 weight) pairs, the payload.

\* n as u16 keeps n modulo U16Count.
U16Count == 65536

u16(n) == n % U16Count

\* The framing of the record written for a vector of n pairs: the u16 count
\* and the number of pairs the loop over svec writes after it.
DocumentVector_framing(n) == [n_dims |-> u16(n), n_pairs |-> n]

DocumentVector_encode(dv) ==
    [length |-> dv.vec.length,
     n_dims |-> DocumentVector_framing(Len(dv.vec.inner)).n_dims,
     pairs  |-> [k \in 1..Len(dv.vec.inner) |->
                    <<Dim(dv.vec.inner[k]) % 16777216, Weight(dv.vec.inner[k])>>],
     doc    |-> dv.document]

\* Vector::new_raw
new_raw(sp, length) == [inner |-> sp, length |-> length]

\* The payload decoder reads what follows the n_dims pairs it was told about:
\* the payload, or the bytes of a pair the count did not cover.
PayloadAfter(e) ==
    IF e.n_dims = Len(e.pairs) THEN e.doc
    ELSE <<"bytes of pair", e.pairs[e.n_dims + 1]>>

\* Variant that recomputes the length from the decoded pairs.
DocumentVector_decode_recompute(e) ==
    IF e.n_dims > Len(e.pairs) THEN Err("Io")
    ELSE LET dimensions == SubSeq(e.pairs, 1, e.n_dims)
         IN Ok([document |-> PayloadAfter(e),
                vec |-> new_raw(dimensions, SumSq(dimensions))])

\* Decoding reads exactly n_dims pairs and takes the length from the record;
\* a record that ends before the announced pairs is an Io error.
DocumentVector_decode(e) ==
    IF e.n_dims > Len(e.pairs) THEN Err("Io")
    ELSE Ok([document |-> PayloadAfter(e),
             vec |-> new_raw(SubSeq(e.pairs, 1, e.n_dims), e.length)])

----------------------------------------------------------------------------
\* vector_store.rs: build

\* Variant that files a vector under its document number.
RECURSIVE dim_vec_map_by_doc(_, _, _)
dim_vec_map_by_doc(vs, pos, m) ==
    IF pos >= Len(vs) THEN m
    ELSE dim_vec_map_by_doc(vs, pos + 1,
            PushDims(m, vec_indices(vs[pos + 1].vec), vs[pos + 1].document))

\* The map from dimension to the positions of the vectors lying in it.
RECURSIVE dim_vec_map(_, _, _)
dim_vec_map(vs, pos, m) ==
    IF pos >= Len(vs) THEN m
    ELSE dim_vec_map(vs, pos + 1, PushDims(m, vec_indices(vs[pos + 1].vec), pos))

encoded_vectors(vs) == [i \in 1..Len(vs) |-> DocumentVector_encode(vs[i])]

\* VectorStore::len
len(store) == Len(store)

load_vector(store, line) == DocumentVector_decode(store[line + 1])

----------------------------------------------------------------------------
\* build/mod.rs: IndexBuilder (specification Spec)

\* The number of terms the insert calls have passed so far.
RECURSIVE TotalTerms(_)
TotalTerms(cs) ==
    IF cs = <<>> THEN 0 ELSE Len(Head(cs).terms) + TotalTerms(Tail(cs))

\* The term lists a further call may pass.
TermLists == SeqsUpTo(Terms, MaxTotalTerms - TotalTerms(calls))

\* What a custom closure looks up: nothing or one term.
CustomTermLists ==
    {tl \in {<<>>} \cup {<<t>> : t \in Terms} :
        Len(tl) <= MaxTotalTerms - TotalTerms(calls)}

\* The closure of insert_new_vec / insert_new_weighted_vec over the terms:
\* get_or_add_term and update_term_freq for each, collecting the ids.
RECURSIVE MapTerms(_, _, _)
MapTerms(tl, doc_id, st) ==
    IF tl = <<>> THEN st
    ELSE LET r == get_or_add_term(st.terms, Head(tl))
         IN MapTerms(Tail(tl), doc_id,
               [terms |-> r.terms,
                term_freq |-> update_term_freq(st.term_freq, r.id, doc_id),
                ids |-> Append(st.ids, r.id)])

\* The closure of a custom vector: it only looks the terms up.
RECURSIVE CustomTerms(_, _)
CustomTerms(tl, st) ==
    IF tl = <<>> THEN st
    ELSE LET r == get_or_add_term(st.terms, Head(tl))
         IN CustomTerms(Tail(tl), [terms |-> r.terms, ids |-> Append(st.ids, r.id)])

DocumentVector_new(document, v) == [document |-> document, vec |-> v]

\* The installed filter is a predicate on the payload: it drops the vectors
\* of the documents in a chosen set and passes the others on unchanged.
WithFilter ==
    /\ phase = "building"
    /\ \E drop \in SUBSET (0..MaxDropDoc) : output_filter' = Some(drop)
    /\ UNCHANGED pureVars
    /\ UNCHANGED <<phase, vectors, terms, doc_freq, term_freq, order_map, calls,
                   returned, indexer, vector_store, map, inv_index, query,
                   sparse, vec>>
    /\ UNCHANGED asyncVars

InsertNewVec ==
    /\ phase = "building"
    /\ Len(vectors) < MaxDocs
    /\ \E tl \in TermLists :
         LET doc_id == Len(vectors)
             st == MapTerms(tl, doc_id,
                      [terms |-> terms, term_freq |-> term_freq, ids |-> <<>>])
         IN \E dimensions \in SeqsOfSet(Range(st.ids)) :
              /\ terms' = st.terms
              /\ term_freq' = st.term_freq
              /\ doc_freq' = update_doc_freq(doc_freq, dimensions)
              /\ vectors' = Append(vectors, DocumentVector_new(doc_id,
                    create_new_raw([k \in 1..Len(dimensions) |-> <<dimensions[k], 1>>])))
              /\ calls' = Append(calls, [kind |-> "new", terms |-> tl])
              /\ returned' = Append(returned, doc_id)
    /\ UNCHANGED pureVars
    /\ UNCHANGED <<phase, order_map, output_filter, indexer, vector_store, map,
                   inv_index, query, sparse, vec>>
    /\ UNCHANGED asyncVars

InsertNewWeightedVec ==
    /\ phase = "building"
    /\ Len(vectors) < MaxDocs
    /\ \E tl \in TermLists : \E ws \in [1..Len(tl) -> CallWeights] :
         LET doc_id == Len(vectors)
             st == MapTerms(tl, doc_id,
                      [terms |-> terms, term_freq |-> term_freq, ids |-> <<>>])
             dimensions == [k \in 1..Len(tl) |-> <<st.ids[k], ws[k]>>]
         IN /\ terms' = st.terms
            /\ term_freq' = st.term_freq
            /\ doc_freq' = update_doc_freq(doc_freq, st.ids)
            /\ vectors' = Append(vectors,
                              DocumentVector_new(doc_id, create_new_raw(dimensions)))
            /\ calls' = Append(calls, [kind |-> "weighted", terms |-> tl])
            /\ returned' = Append(returned, doc_id)
    /\ UNCHANGED pureVars
    /\ UNCHANGED <<phase, order_map, output_filter, indexer, vector_store, map,
                   inv_index, query, sparse, vec>>
    /\ UNCHANGED asyncVars

InsertCustomVec ==
    /\ phase = "building"
    /\ Len(vectors) < MaxDocs
    /\ \E tl \in CustomTermLists :
         LET doc_id == Len(vectors)
             st == CustomTerms(tl, [terms |-> terms, ids |-> <<>>])
         IN /\ terms' = st.terms
            /\ vectors' = Append(vectors, DocumentVector_new(doc_id,
                  create_new_raw([k \in 1..Len(st.ids) |-> <<st.ids[k], 1>>])))
            /\ calls' = Append(calls, [kind |-> "custom", terms |-> tl])
            /\ returned' = Append(returned, doc_id)
    /\ UNCHANGED pureVars
    /\ UNCHANGED <<phase, doc_freq, term_freq, order_map, output_filter, indexer,
                   vector_store, map, inv_index, query, sparse, vec>>
    /\ UNCHANGED asyncVars

\* The vectors the output filter lets through, in their order.
filter_map(filter, vs) ==
    IF filter = None THEN vs
    ELSE SelectSeq(vs, LAMBDA dv : dv.document \notin filter[1])

\* DefaultMetadata::new and a caller who filled in a document count.
DefaultMetadata_new(version) == [version |-> version, document_count |-> 0]

Metadatas ==
    {DefaultMetadata_new("V1"),
     [DefaultMetadata_new("V1") EXCEPT !.document_count = MaxDocs]}

\* The metadata of the built Index: the value the caller passed.
build_metadata(metadata_in, vstore) == metadata_in

Build ==
    /\ phase = "building"
    /\ \E metadata_in \in Metadatas,
          term_vec \in SeqsOfSet({<<t, terms[t]>> : t \in DOMAIN terms}) :
         LET om == build_order_map(terms, term_vec)
             adjusted == adjust_vecs(om, vectors)
         IN /\ order_map' = om
            /\ IF build_from_termstore_panics(terms, doc_freq)
               THEN /\ phase' = "panicked"
                    /\ vectors' = adjusted
                    /\ UNCHANGED <<indexer, vector_store, map, inv_index,
                                   metadata>>
               ELSE LET kept == filter_map(output_filter, adjusted)
                        m == dim_vec_map(kept, 0, <<>>)
                    IN /\ phase' = "built"
                       /\ vectors' = kept
                       /\ indexer' = build_from_termstore(terms, doc_freq, om)
                       /\ map' = m
                       /\ inv_index' = NewDimVecMap_build(m)
                       /\ vector_store' = encoded_vectors(kept)
                       /\ metadata' =
                             Some(build_metadata(metadata_in, encoded_vectors(kept)))
    /\ UNCHANGED <<other, value, bytes, result>>
    /\ UNCHANGED <<terms, doc_freq, term_freq, output_filter, calls, returned,
                   query, sparse, vec>>
    /\ UNCHANGED asyncVars

Init ==
    /\ InitPure
    /\ phase = "building"
    /\ vectors = <<>>
    /\ terms = <<>>
    /\ doc_freq = <<>>
    /\ term_freq = <<>>
    /\ order_map = <<>>
    /\ output_filter = None
    /\ calls = <<>>
    /\ returned = <<>>
    /\ indexer = <<>>
    /\ vector_store = <<>>
    /\ map = <<>>
    /\ inv_index = [index |-> <<>>, data |-> <<>>]
    /\ query = None
    /\ sparse = <<>>
    /\ vec = new_empty
    /\ InitFuture

Next == WithFilter \/ InsertNewVec \/ InsertNewWeightedVec \/ InsertCustomVec \/ Build

Spec == Init /\ [][Next]_vars

----------------------------------------------------------------------------
\* Properties of the build pipeline (specification Spec)

Built == phase = "built"

NoDuplicates(s) == Cardinality(Range(s)) = Len(s)

\* The terms handed to the builder so far, and the zero-based position of a
\* term among them in byte-lexicographic order.
InsertedTerms == UNION {Range(calls[k].terms) : k \in 1..Len(calls)}

Rank(t) == Cardinality({u \in InsertedTerms : LexLess(u, t)})

\* The calls of insert_new_vec / insert_new_weighted_vec whose list holds t.
DocsContaining(t) ==
    {k \in 1..Len(calls) : /\ calls[k].kind \in {"new", "weighted"}
                           /\ t \in Range(calls[k].terms)}

RecordedDocFreq(t) ==
    IF t \in DOMAIN terms /\ terms[t] \in DOMAIN doc_freq
    THEN doc_freq[terms[t]] ELSE 0

StoredVector(id) == load_vector(vector_store, id).val

\* C1: after build, every vector ID v of the vector store is contained in the
\* posting get(d) of every dimension d of v's sparse vector.
C1_Coverage ==
    Built =>
        \A id \in 0..(len(vector_store) - 1) :
            \A d \in Range(vec_indices(StoredVector(id).vec)) :
                /\ get(inv_index, d) # None
                /\ id \in Range(get(inv_index, d)[1])

\* C4 as stated: the doc_freq recorded for a term is the number of inserted
\* documents whose term list contains it, however often a list repeats it.
C4_DocFreqCountsDocuments ==
    \A t \in Terms : RecordedDocFreq(t) = Cardinality(DocsContaining(t))

\* C4 amended: the same, when the term lists passed to
\* insert_new_weighted_vec are free of duplicates (the lists passed to
\* insert_new_vec may repeat terms).
C4_DocFreqCountsDocumentsUniqueWeighted ==
    (\A k \in 1..Len(calls) :
        calls[k].kind = "weighted" => NoDuplicates(calls[k].terms))
    => \A t \in Terms : RecordedDocFreq(t) = Cardinality(DocsContaining(t))

\* A weighted document and a later insert_new_vec document that repeats a
\* term both contain that term: its doc_freq is 2.
C4_Witness ==
    /\ Len(calls) = 2
    /\ calls[1].kind = "weighted"
    /\ NoDuplicates(calls[1].terms)
    /\ calls[2].kind = "new"
    /\ \E t \in Terms :
          /\ calls[2].terms = <<t, t>>
          /\ t \in Range(calls[1].terms)
          /\ RecordedDocFreq(t) = 2

C6_TermStoreSorted ==
    Built =>
        LET ts == iter(indexer)
        IN /\ Len(ts) = Cardinality(InsertedTerms)
           /\ {ts[i].text : i \in 1..Len(ts)} = InsertedTerms
           /\ \A i \in 1..(Len(ts) - 1) : LexLess(ts[i].text, ts[i + 1].text)
           /\ \A i \in 1..Len(ts) : order_map[terms[ts[i].text]] = i - 1

\* The term store was built from two terms inserted in descending order.
C6_Witness ==
    /\ Built
    /\ Len(iter(indexer)) = 2
    /\ DOMAIN terms = Terms
    /\ \E t \in Terms, u \in Terms :
          LexLess(u, t) /\ terms[t] = 0 /\ terms[u] = 1

\* C7: the k-th insert call returns k, and after build its document is
\* stored under vector ID k.
C7_IdIsCallPosition ==
    /\ \A k \in 1..Len(returned) : returned[k] = k - 1
    /\ Built =>
          \A k \in 1..Len(calls) :
              /\ k - 1 < len(vector_store)
              /\ StoredVector(k - 1).document = k - 1

\* C8: after build, every vector ID in any posting of the inverted index is
\* smaller than the number of vectors in the vector store.
C8_NoGhost ==
    Built =>
        \A d \in 0..Len(inv_index.index) :
            get(inv_index, d) # None =>
                \A id \in Range(get(inv_index, d)[1]) : id < len(vector_store)

\* The filter removed the first document; the second one is in a posting.
C8_Witness ==
    /\ Built
    /\ Len(calls) = 2
    /\ len(vector_store) = 1
    /\ StoredVector(0).document = 1
    /\ \E d \in 0..Len(inv_index.index) : get(inv_index, d) # None

----------------------------------------------------------------------------
\* The inverted index as steps (specification SpecMap)

\* The number of vector IDs pushed into the map so far.
RECURSIVE TotalIds(_, _)
TotalIds(m, keys) ==
    IF keys = <<>> THEN 0 ELSE Len(m[Head(keys)]) + TotalIds(m, Tail(keys))

\* A caller fills the map: map.entry(dim).or_default().push(id).
Push ==
    /\ phase = "map_input"
    /\ TotalIds(map, SortedKeys(map)) < MaxMapIds
    /\ \E dim \in MapDims, id \in VecIds : map' = PushDims(map, <<dim>>, id)
    /\ UNCHANGED pureVars
    /\ UNCHANGED <<phase, vectors, terms, doc_freq, term_freq, order_map,
                   output_filter, calls, returned, indexer, vector_store,
                   inv_index, query, sparse, vec>>
    /\ UNCHANGED asyncVars

BuildMap ==
    /\ phase = "map_input"
    /\ inv_index' = NewDimVecMap_build(map)
    /\ phase' = "map_built"
    /\ UNCHANGED pureVars
    /\ UNCHANGED <<vectors, terms, doc_freq, term_freq, order_map, output_filter,
                   calls, returned, indexer, vector_store, map, query,
                   sparse, vec>>
    /\ UNCHANGED asyncVars

\* The built index never changes, so a behaviour examines one lookup: query
\* holds its arguments and its result.
Get ==
    /\ phase = "map_built"
    /\ query = None
    /\ \E d \in QueryDims :
          query' = Some([op |-> "get", arg |-> d, out |-> get(inv_index, d)])
    /\ UNCHANGED pureVars
    /\ UNCHANGED <<phase, vectors, terms, doc_freq, term_freq, order_map,
                   output_filter, calls, returned, indexer, vector_store, map,
                   inv_index, sparse, vec>>
    /\ UNCHANGED asyncVars

GetInDims ==
    /\ phase = "map_built"
    /\ query = None
    /\ \E ds \in SeqsUpTo(QueryDims, MaxQuery) :
          query' = Some([op |-> "get_in_dims", arg |-> ds,
                         out |-> get_in_dims(inv_index, ds)])
    /\ UNCHANGED pureVars
    /\ UNCHANGED <<phase, vectors, terms, doc_freq, term_freq, order_map,
                   output_filter, calls, returned, indexer, vector_store, map,
                   inv_index, sparse, vec>>
    /\ UNCHANGED asyncVars

\* inv_index.rs: InvertedIndex::decoded_map
\* self.get(dim).unwrap() fails on a dimension for which get returns None.
decoded_map_panics(inv) ==
    \E dim \in 0..(Len(inv.index) - 1) : get(inv, dim) = None

\* The map of every position of the offset table to what get returns for it.
decoded_map(inv) == [dim \in 0..(Len(inv.index) - 1) |-> get(inv, dim)[1]]

DecodedMap ==
    /\ phase = "map_built"
    /\ query = None
    /\ IF decoded_map_panics(inv_index)
       THEN /\ phase' = "panicked"
            /\ query' = Some([op |-> "decoded_map", arg |-> <<>>, out |-> <<>>])
       ELSE /\ phase' = phase
            /\ query' = Some([op |-> "decoded_map", arg |-> <<>>,
                              out |-> decoded_map(inv_index)])
    /\ UNCHANGED pureVars
    /\ UNCHANGED <<vectors, terms, doc_freq, term_freq, order_map,
                   output_filter, calls, returned, indexer, vector_store, map,
                   inv_index, sparse, vec>>
    /\ UNCHANGED asyncVars

InitMap ==
    /\ InitPure
    /\ phase = "map_input"
    /\ map = <<>>
    /\ inv_index = [index |-> <<>>, data |-> <<>>]
    /\ query = None
    /\ sparse = <<>>
    /\ vec = new_empty
    /\ vectors = <<>>
    /\ terms = <<>>
    /\ doc_freq = <<>>
    /\ term_freq = <<>>
    /\ order_map = <<>>
    /\ output_filter = None
    /\ calls = <<>>
    /\ returned = <<>>
    /\ indexer = <<>>
    /\ vector_store = <<>>
    /\ InitFuture

NextMap == Push \/ BuildMap \/ Get \/ GetInDims \/ DecodedMap

SpecMap == InitMap /\ [][NextMap]_vars

IsAscending(s) == \A i \in 1..(Len(s) - 1) : s[i] <= s[i + 1]

MaxKey(m) == CHOOSE d \in DOMAIN m : \A e \in DOMAIN m : e <= d

LastGet == query # None /\ query[1].op = "get"

\* C2: the offset table of the built index has one entry for every dimension
\* in 0..=max_dim, get(d) returns the ascending posting of m[d] for every key
\* d of the input map m and none for every other d.
C2_DenseTable ==
    phase = "map_built" =>
        /\ DOMAIN map # {} => Len(inv_index.index) = MaxKey(map) + 1
        /\ LastGet =>
             LET d == query[1].arg
                 out == query[1].out
             IN IF d \in DOMAIN map
                THEN /\ out # None
                     /\ IsAscending(out[1])
                     /\ Range(out[1]) = Range(map[d])
                ELSE out = None

\* C3: every posting returned by get is strictly ascending, so it holds no
\* vector ID twice.
C3_PostingStrictlyAscending ==
    (LastGet /\ query[1].out # None) => IsStrictlyAscending(query[1].out[1])

\* C9: get_in_dims returns the set union of the postings of the given
\* dimensions as a strictly ascending list.
C9_GetInDimsUnion ==
    (query # None /\ query[1].op = "get_in_dims") =>
        LET ds == query[1].arg
            out == query[1].out
        IN /\ IsStrictlyAscending(out)
           /\ Range(out) = UNION {Range(get(inv_index, d)[1]) :
                                    d \in {e \in Range(ds) : has(inv_index, e)}}

\* get_in_dims has been asked for a dimension without posting and for
\* dimensions whose postings hold a common ID: the result is shorter than the
\* concatenation of the postings.
C9_Witness ==
    /\ query # None
    /\ query[1].op = "get_in_dims"
    /\ \E d \in Range(query[1].arg) : ~has(inv_index, d)
    /\ \E d \in Range(query[1].arg) : has(inv_index, d)
    /\ Len(query[1].out) > 0
    /\ Len(query[1].out) < Len(FlattenGets(inv_index, query[1].arg))

----------------------------------------------------------------------------
\* C10: every vector produced by create_new_raw or left by update has its
\* pairs strictly ascending by dim (sorted, no dim twice).
C10_SortedByDim ==
    phase = "vec_updated" => IsStrictlyAscending(vec_indices(vec))

\* create_new_raw has acted on an unsorted input that repeats a dim.
C10_Witness ==
    /\ phase = "vec_updated"
    /\ Len(sparse) = 3
    /\ Dim(sparse[1]) > Dim(sparse[2])
    /\ Dim(sparse[1]) = Dim(sparse[3])
    /\ Len(vec.inner) = 2

----------------------------------------------------------------------------
\* C11: after create_new_raw or update, the cached length is the norm of the
\* pairs that remain stored: its square is the sum of their squared weights.
C11_LengthIsNormOfStored ==
    phase = "vec_updated" => vec.length = SumSq(vec.inner)

----------------------------------------------------------------------------
\* vector.rs: operations on two vectors (specification SpecPair)

\* Dims of the vectors compared: 0..MaxPairDim.
MaxPairDim == 2

is_empty(v) == v.inner = <<>>

\* first_indice / last_indice unwrap: they are defined on non-empty vectors.
first_indice(v) == Dim(v.inner[1])
last_indice(v) == Dim(v.inner[Len(v.inner)])

\* Variant whose range check also rejects vectors that touch at one end.
could_overlap_strict(a, b) ==
    ~(\/ is_empty(a)
      \/ is_empty(b)
      \/ first_indice(a) >= last_indice(b)
      \/ last_indice(a) <= first_indice(b))

could_overlap(a, b) ==
    ~(\/ is_empty(a)
      \/ is_empty(b)
      \/ first_indice(a) > last_indice(b)
      \/ last_indice(a) < first_indice(b))

\* slice::binary_search_by on the dims, is_ok().
RECURSIVE has_dim_search(_, _, _, _)
has_dim_search(inner, dim, left, right) ==
    IF left >= right THEN FALSE
    ELSE LET mid == left + (right - left) \div 2
             d == Dim(inner[mid + 1])
         IN IF d = dim THEN TRUE
            ELSE IF d < dim THEN has_dim_search(inner, dim, mid + 1, right)
            ELSE has_dim_search(inner, dim, left, mid)

has_dim(v, dim) == has_dim_search(v.inner, dim, 0, Len(v.inner))

\* Variant that hands the two values out in the wrong places.
lock_step_item_swapped(pa, pb) == <<Dim(pa), Weight(pb), Weight(pa)>>

\* The triple returned for the items pa and pb of equal dim.
lock_step_item(pa, pb) == <<Dim(pa), Weight(pa), Weight(pb)>>

\* LockStepIter::next on the remaining items a and b of the two streams: the
\* item returned (None when a stream is exhausted) and what remains.
RECURSIVE LockStepIter_next(_, _)
LockStepIter_next(a, b) ==
    IF a = <<>> \/ b = <<>> THEN [item |-> None, a |-> a, b |-> b]
    ELSE IF Dim(a[1]) < Dim(b[1]) THEN LockStepIter_next(Tail(a), b)
    ELSE IF Dim(a[1]) > Dim(b[1]) THEN LockStepIter_next(a, Tail(b))
    ELSE [item |-> Some(lock_step_item(a[1], b[1])),
          a |-> Tail(a), b |-> Tail(b)]

\* The number of calls of next() on the two streams the iterator makes until
\* it returns None: one in the Less and Greater arms, two in the Equal arm.
RECURSIVE LockStepIter_advances(_, _)
LockStepIter_advances(a, b) ==
    IF a = <<>> \/ b = <<>> THEN 0
    ELSE IF Dim(a[1]) < Dim(b[1]) THEN 1 + LockStepIter_advances(Tail(a), b)
    ELSE IF Dim(a[1]) > Dim(b[1]) THEN 1 + LockStepIter_advances(a, Tail(b))
    ELSE 2 + LockStepIter_advances(Tail(a), Tail(b))

\* Every item the iterator yields, in order.
RECURSIVE LockStepIter_collect(_, _)
LockStepIter_collect(a, b) ==
    LET n == LockStepIter_next(a, b)
    IN IF n.item = None THEN <<>>
       ELSE n.item \o LockStepIter_collect(n.a, n.b)

overlaps_with(a, b) ==
    IF ~could_overlap(a, b) THEN FALSE
    ELSE LockStepIter_next(a.inner, b.inner).item # None

\* The vectors insert_new_vec makes: create_new_raw of (dim, 1.0) pairs.
PairInputs == SeqsUpTo(0..MaxPairDim, MaxPairs)

UnitPairs(dims) == [i \in 1..Len(dims) |-> <<dims[i], 1>>]

RECURSIVE SumProducts(_)
SumProducts(items) ==
    IF items = <<>> THEN 0
    ELSE items[1][2] * items[1][3] + SumProducts(Tail(items))

scalar(a, b) == SumProducts(LockStepIter_collect(a.inner, b.inner))

\* f32 division scalar / (|a| * |b|). The cached lengths are kept squared, so
\* a finite quotient is kept as its numerator and its squared denominator;
\* 0.0 / 0.0 is NaN and x / 0.0 is infinite.
similarity(a, b) ==
    LET num == scalar(a, b)
        den_sq == a.length * b.length
    IN IF den_sq # 0 THEN [kind |-> "finite", num |-> num, den_sq |-> den_sq]
       ELSE IF num = 0 THEN [kind |-> "NaN", num |-> num, den_sq |-> den_sq]
       ELSE [kind |-> "inf", num |-> num, den_sq |-> den_sq]

OverlapsWith ==
    /\ phase = "pair"
    /\ result' = Some([op |-> "overlaps_with", out |-> overlaps_with(vec, other)])
    /\ UNCHANGED <<phase, vectors, terms, doc_freq, term_freq, order_map,
                   output_filter, calls, returned, indexer, vector_store, map,
                   inv_index, query, sparse, vec, other, value, bytes, metadata>>
    /\ UNCHANGED asyncVars

Similarity ==
    /\ phase = "pair"
    /\ result' = Some([op |-> "similarity", out |-> similarity(vec, other)])
    /\ UNCHANGED <<phase, vectors, terms, doc_freq, term_freq, order_map,
                   output_filter, calls, returned, indexer, vector_store, map,
                   inv_index, query, sparse, vec, other, value, bytes, metadata>>
    /\ UNCHANGED asyncVars

\* vec.overlapping(other), run to its end.
Overlapping ==
    /\ phase \in {"pair", "streams"}
    /\ result' = Some([op |-> "overlapping",
                       out |-> LockStepIter_collect(vec.inner, other.inner),
                       advances |-> LockStepIter_advances(vec.inner, other.inner)])
    /\ UNCHANGED <<phase, vectors, terms, doc_freq, term_freq, order_map,
                   output_filter, calls, returned, indexer, vector_store, map,
                   inv_index, query, sparse, vec, other, value, bytes, metadata>>
    /\ UNCHANGED asyncVars

\* The pairs of dims D in ascending order, weighted by w.
AscendingPairs(D, w) ==
    [k \in 1..Cardinality(D) |->
        LET d == CHOOSE e \in D : Cardinality({f \in D : f <= e}) = k
        IN <<d, w[d]>>]

\* Streams strictly ascending by dim, any weights on the first; the weights
\* of the second are none of the first's.
StreamsA ==
    UNION {{AscendingPairs(D, w) : w \in [D -> Weights]} : D \in SUBSET (0..MaxPairDim)}

StreamsB ==
    {AscendingPairs(D, [d \in D |-> MaxWeight + 1 + d]) : D \in SUBSET (0..MaxPairDim)}

InitPair ==
    /\ \/ /\ phase = "pair"
          /\ \E da \in PairInputs, db \in PairInputs :
                /\ vec = create_new_raw(UnitPairs(da))
                /\ other = create_new_raw(UnitPairs(db))
       \/ /\ phase = "streams"
          /\ \E sa \in StreamsA, sb \in StreamsB :
                /\ vec = new_raw(sa, SumSq(sa))
                /\ other = new_raw(sb, SumSq(sb))
    /\ value = <<>>
    /\ bytes = <<>>
    /\ result = <<>>
    /\ metadata = <<>>
    /\ sparse = <<>>
    /\ vectors = <<>>
    /\ terms = <<>>
    /\ doc_freq = <<>>
    /\ term_freq = <<>>
    /\ order_map = <<>>
    /\ output_filter = None
    /\ calls = <<>>
    /\ returned = <<>>
    /\ indexer = <<>>
    /\ vector_store = <<>>
    /\ map = <<>>
    /\ inv_index = [index |-> <<>>, data |-> <<>>]
    /\ query = None
    /\ InitFuture

NextPair == OverlapsWith \/ Similarity \/ Overlapping

SpecPair == InitPair /\ [][NextPair]_vars

\* The dims the two vectors share.
SharedDims == {d \in 0..MaxPairDim : has_dim(vec, d) /\ has_dim(other, d)}

\* C12: overlaps_with(a, b) is true iff a and b have a dimension in common.
C12_OverlapsIffShared ==
    (result # None /\ result[1].op = "overlaps_with")
        => (result[1].out <=> SharedDims # {})

\* The only dimension the two vectors share is the first of one and the last
\* of the other, and the answer is true.
C12_Witness ==
    /\ result # None
    /\ result[1].op = "overlaps_with"
    /\ Len(vec.inner) = 2
    /\ Len(other.inner) = 2
    /\ SharedDims = {first_indice(vec)}
    /\ first_indice(vec) = last_indice(other)
    /\ result[1].out = TRUE

\* C13: similarity returns 0 whenever one of the two lengths is zero.
C13_ZeroLengthGivesZero ==
    (/\ result # None
     /\ result[1].op = "similarity"
     /\ (vec.length = 0 \/ other.length = 0))
        => (result[1].out.kind = "finite" /\ result[1].out.num = 0)

----------------------------------------------------------------------------
\* The codecs as steps (specification SpecCodec): a value is encoded and the
\* bytes decoded again, or bytes read from a file are decoded.

\* Payloads: document numbers.
Payloads == {0, 1}

\* Vectors as create_new_raw leaves them and as a caller may leave them after
\* sparse_iter_mut (any order of dims, the length not recomputed).
SmallVectors ==
    {create_new_raw(sp) : sp \in SeqsUpTo(Pairs, MaxPairs)}
        \cup {new_raw(sp, SumSq(sp)) : sp \in SeqsUpTo(Pairs, MaxPairs)}

DocumentVectors == {DocumentVector_new(d, v) : d \in Payloads, v \in SmallVectors}

\* Numbers of pairs of vectors too long to enumerate, around the u16 limit.
DimenCounts == {U16Count - 2, U16Count - 1, U16Count, U16Count + 1}

\* Records a file may hold: any pairs, the count equal to their number or
\* one more than the record has.
DocumentVectorRecords ==
    {[length |-> SumSq(sp), n_dims |-> n, pairs |-> sp, doc |-> d] :
        sp \in SeqsUpTo(Pairs, MaxPairs), n \in 0..(MaxPairs + 1), d \in Payloads}

WellFramed(r) == r.n_dims = Len(r.pairs) \/ r.n_dims = Len(r.pairs) + 1

EncodeDocumentVector ==
    /\ phase = "codec_value"
    /\ value[1].type = "DocumentVector"
    /\ bytes' = Some([type |-> "DocumentVector",
                      rec |-> DocumentVector_encode(value[1].val)])
    /\ phase' = "encoded"
    /\ UNCHANGED <<vectors, terms, doc_freq, term_freq, order_map,
                   output_filter, calls, returned, indexer, vector_store, map,
                   inv_index, query, sparse, vec, other, value, result, metadata>>
    /\ UNCHANGED asyncVars

\* encode of a vector of value[1].val pairs, reduced to the framing it writes.
EncodeFraming ==
    /\ phase = "codec_value"
    /\ value[1].type = "dimen_count"
    /\ bytes' = Some([type |-> "framing",
                      rec |-> Ok(DocumentVector_framing(value[1].val))])
    /\ phase' = "encoded"
    /\ UNCHANGED <<vectors, terms, doc_freq, term_freq, order_map,
                   output_filter, calls, returned, indexer, vector_store, map,
                   inv_index, query, sparse, vec, other, value, result, metadata>>
    /\ UNCHANGED asyncVars

DecodeDocumentVector ==
    /\ phase \in {"encoded", "codec_bytes"}
    /\ bytes[1].type = "DocumentVector"
    /\ result' = Some(DocumentVector_decode(bytes[1].rec))
    /\ phase' = "decoded"
    /\ UNCHANGED <<vectors, terms, doc_freq, term_freq, order_map,
                   output_filter, calls, returned, indexer, vector_store, map,
                   inv_index, query, sparse, vec, other, value, bytes, metadata>>
    /\ UNCHANGED asyncVars

\* metadata.rs: IndexVersion and the DefaultMetadata codec, on bytes.

\* self.version as u8
IndexVersion_as_u8(version) == CASE version = "V1" -> 0

\* Variant that takes every version byte for V1.
IndexVersion_try_from_any(b) == Ok("V1")

IndexVersion_try_from(b) == IF b = 0 THEN Ok("V1") ELSE Err("Decode")

\* write_u64 / read_u64, little endian, of counts below 2^31: the upper four
\* bytes are zero.
u64_le(n) == u32_le(n) \o <<0, 0, 0, 0>>

from_u64_le(b) == from_u32_le(SubSeq(b, 1, 4))

DefaultMetadata_encode(m) ==
    <<IndexVersion_as_u8(m.version)>> \o u64_le(m.document_count)

\* read_u8 and read_u64 fail with an Io error at the end of the bytes.
DefaultMetadata_decode(b) ==
    IF Len(b) < 1 THEN Err("Io")
    ELSE LET version == IndexVersion_try_from(b[1])
         IN IF ~version.ok THEN version
            ELSE IF Len(b) < 9 THEN Err("Io")
            ELSE Ok([version |-> version.val,
                     document_count |-> from_u64_le(SubSeq(b, 2, 9))])

\* Document counts of one, two and three significant bytes.
DocumentCounts == {0, 1, 258, 65536 * 2 + 7}

DefaultMetadatas == {[version |-> "V1", document_count |-> n] : n \in DocumentCounts}

\* Metadata bytes a file may hold: nothing, or a version byte followed by
\* nothing or by a count.
MetadataBytes ==
    {<<>>} \cup {<<v>> \o tail : v \in {0, 1, 255},
                                tail \in {<<>>} \cup {u64_le(n) : n \in DocumentCounts}}

EncodeMetadata ==
    /\ phase = "codec_value"
    /\ value[1].type = "DefaultMetadata"
    /\ bytes' = Some([type |-> "DefaultMetadata",
                      rec |-> DefaultMetadata_encode(value[1].val)])
    /\ phase' = "encoded"
    /\ UNCHANGED <<vectors, terms, doc_freq, term_freq, order_map,
                   output_filter, calls, returned, indexer, vector_store, map,
                   inv_index, query, sparse, vec, other, value, result, metadata>>
    /\ UNCHANGED asyncVars

DecodeMetadata ==
    /\ phase \in {"encoded", "codec_bytes"}
    /\ bytes[1].type = "DefaultMetadata"
    /\ result' = Some(DefaultMetadata_decode(bytes[1].rec))
    /\ phase' = "decoded"
    /\ UNCHANGED <<vectors, terms, doc_freq, term_freq, order_map,
                   output_filter, calls, returned, indexer, vector_store, map,
                   inv_index, query, sparse, vec, other, value, bytes, metadata>>
    /\ UNCHANGED asyncVars

\* traits.rs: the codec of Vec<u32>, on bytes.

\* Lists of at most MaxListLen elements are encoded byte by byte.
MaxListLen == 3

\* A usize too large for an integer of the model, as its two 16-bit-wide
\* limbs <<high, low>>: high * 65536 + low. The high limb of a usize may
\* exceed 65535.
Limbs(n) == <<n \div U16Count, n % U16Count>>

LimbsLess(a, b) == a[1] < b[1] \/ (a[1] = b[1] /\ a[2] < b[2])

\* len as u32 keeps the low 32 bits.
as_u32(n) == <<n[1] % U16Count, n[2]>>

\* The u32 of two limbs as an integer (below 2^31).
LimbsValue(n) == n[1] * U16Count + n[2]

\* The framing encode writes for a list of n elements: the u32 count and
\* the number of elements the loop appends after it.
Vec_framing(n) == [len |-> as_u32(n), n_items |-> n]

\* decode of such bytes returns len elements, or fails with an Io error
\* when fewer follow.
Vec_decode_framing(f) ==
    IF LimbsLess(f.n_items, f.len) THEN Err("Io") ELSE Ok(f.len)

RECURSIVE Concat(_)
Concat(ss) == IF ss = <<>> THEN <<>> ELSE Head(ss) \o Concat(Tail(ss))

Vec_u32_encode(list) ==
    u32_le(LimbsValue(Vec_framing(Limbs(Len(list))).len))
        \o Concat([i \in 1..Len(list) |-> u32_le(list[i])])

\* read_u32 and read_exact fail with an Io error at the end of the bytes.
Vec_u32_decode(b) ==
    IF Len(b) < 4 THEN Err("Io")
    ELSE LET n == from_u32_le(SubSeq(b, 1, 4))
         IN IF Len(b) < 4 + 4 * n THEN Err("Io")
            ELSE Ok([k \in 1..n |-> from_u32_le(SubSeq(b, 4 * k + 1, 4 * k + 4))])

\* Elements of one, two and four significant bytes.
U32Values == {10, 7697, 16777216 * 3 + 76}

U32Lists == SeqsUpTo(U32Values, MaxListLen)

\* Numbers of elements of lists too long to enumerate, around the u32 limit:
\* 2^32 - 1, 2^32 and 2^32 + 1.
LongLens == {<<U16Count - 1, U16Count - 1>>, <<U16Count, 0>>, <<U16Count, 1>>}

EncodeVec ==
    /\ phase = "codec_value"
    /\ value[1].type = "Vec<u32>"
    /\ bytes' = Some([type |-> "Vec<u32>", rec |-> Vec_u32_encode(value[1].val)])
    /\ phase' = "encoded"
    /\ UNCHANGED <<vectors, terms, doc_freq, term_freq, order_map,
                   output_filter, calls, returned, indexer, vector_store, map,
                   inv_index, query, sparse, vec, other, value, result, metadata>>
    /\ UNCHANGED asyncVars

DecodeVec ==
    /\ phase \in {"encoded", "codec_bytes"}
    /\ bytes[1].type = "Vec<u32>"
    /\ result' = Some(Vec_u32_decode(bytes[1].rec))
    /\ phase' = "decoded"
    /\ UNCHANGED <<vectors, terms, doc_freq, term_freq, order_map,
                   output_filter, calls, returned, indexer, vector_store, map,
                   inv_index, query, sparse, vec, other, value, bytes, metadata>>
    /\ UNCHANGED asyncVars

\* encode of a list of value[1].val elements, reduced to its framing.
EncodeVecFraming ==
    /\ phase = "codec_value"
    /\ value[1].type = "len"
    /\ bytes' = Some([type |-> "Vec_framing", rec |-> Vec_framing(value[1].val)])
    /\ phase' = "encoded"
    /\ UNCHANGED <<vectors, terms, doc_freq, term_freq, order_map,
                   output_filter, calls, returned, indexer, vector_store, map,
                   inv_index, query, sparse, vec, other, value, result, metadata>>
    /\ UNCHANGED asyncVars

\* decode of such a framing: the number of elements of the list returned.
DecodeVecFraming ==
    /\ phase = "encoded"
    /\ bytes[1].type = "Vec_framing"
    /\ result' = Some(Vec_decode_framing(bytes[1].rec))
    /\ phase' = "decoded"
    /\ UNCHANGED <<vectors, terms, doc_freq, term_freq, order_map,
                   output_filter, calls, returned, indexer, vector_store, map,
                   inv_index, query, sparse, vec, other, value, bytes, metadata>>
    /\ UNCHANGED asyncVars

\* The value handed to an encoder.
InitValue ==
    \/ \E dv \in DocumentVectors :
          value = Some([type |-> "DocumentVector", val |-> dv])
    \/ \E n \in DimenCounts :
          value = Some([type |-> "dimen_count", val |-> n])
    \/ \E m \in DefaultMetadatas :
          value = Some([type |-> "DefaultMetadata", val |-> m])
    \/ \E list \in U32Lists :
          value = Some([type |-> "Vec<u32>", val |-> list])
    \/ \E n \in LongLens :
          value = Some([type |-> "len", val |-> n])

\* The bytes read from a file.
InitBytes ==
    \/ \E r \in {q \in DocumentVectorRecords : WellFramed(q)} :
          bytes = Some([type |-> "DocumentVector", rec |-> r])
    \/ \E b \in MetadataBytes :
          bytes = Some([type |-> "DefaultMetadata", rec |-> b])

InitCodec ==
    /\ \/ /\ phase = "codec_value"
          /\ InitValue
          /\ bytes = <<>>
       \/ /\ phase = "codec_bytes"
          /\ value = <<>>
          /\ InitBytes
    /\ result = <<>>
    /\ other = new_empty
    /\ metadata = <<>>
    /\ sparse = <<>>
    /\ vec = new_empty
    /\ vectors = <<>>
    /\ terms = <<>>
    /\ doc_freq = <<>>
    /\ term_freq = <<>>
    /\ order_map = <<>>
    /\ output_filter = None
    /\ calls = <<>>
    /\ returned = <<>>
    /\ indexer = <<>>
    /\ vector_store = <<>>
    /\ map = <<>>
    /\ inv_index = [index |-> <<>>, data |-> <<>>]
    /\ query = None
    /\ InitFuture

NextCodec ==
    \/ EncodeDocumentVector
    \/ EncodeFraming
    \/ DecodeDocumentVector
    \/ EncodeMetadata
    \/ DecodeMetadata
    \/ EncodeVec
    \/ DecodeVec
    \/ EncodeVecFraming
    \/ DecodeVecFraming

SpecCodec == InitCodec /\ [][NextCodec]_vars

\* A value was encoded and the bytes decoded again.
RoundTrip(type) ==
    /\ phase = "decoded"
    /\ value # None
    /\ value[1].type = type

\* Bytes read from a file were decoded.
Loaded(type) ==
    /\ phase = "decoded"
    /\ value = None
    /\ bytes[1].type = type

\* C14: for a document vector of at most 65,535 pairs with dims below 2^24,
\* decode(encode(v)) has the stored length of v, its pairs in their order and
\* its payload.
C14_DocumentVectorRoundTrip ==
    (/\ RoundTrip("DocumentVector")
     /\ Len(value[1].val.vec.inner) <= 65535
     /\ \A d \in Range(vec_indices(value[1].val.vec)) : d < 16777216)
        => result[1] = Ok(value[1].val)

\* The round trip of a vector whose cached length is not the norm of its
\* stored pairs (create_new_raw of a repeated dim).
C14_Witness ==
    /\ RoundTrip("DocumentVector")
    /\ Len(value[1].val.vec.inner) = 2
    /\ value[1].val.vec.length # SumSq(value[1].val.vec.inner)
    /\ result[1] = Ok(value[1].val)

\* C15: a document vector with more than 65,535 dimensions is rejected, and
\* no record is written whose u16 count differs from the number of pairs that
\* follow it.
C15_TooManyDimsRejected ==
    (phase = "encoded" /\ value[1].type = "dimen_count")
        => /\ value[1].val > 65535 => ~bytes[1].rec.ok
           /\ bytes[1].rec.ok =>
                 bytes[1].rec.val.n_dims = bytes[1].rec.val.n_pairs

\* C16: decoding a record whose dims are not strictly ascending fails with a
\* decode error.
C16_NonAscendingRejected ==
    (/\ Loaded("DocumentVector")
     /\ bytes[1].rec.n_dims = Len(bytes[1].rec.pairs)
     /\ ~IsStrictlyAscending(Dims(bytes[1].rec.pairs)))
        => result[1] = Err("Decode")

----------------------------------------------------------------------------
\* index.rs: Index::from_archive (specification SpecArchive). The archive is
\* the list of its entries; the content of an entry either parses to the
\* section with its number or does not parse.

\* Sections are numbered 1..MaxContent.
MaxContent == 2

\* FILE_NAME of metadata, term_indexer, dim_map and vector_store.
SectionNames == {"metadata", "term_indexer", "dim_map", "vectors"}

\* What stands for the name of an entry whose path has no UTF-8 file name.
NoFileName == ""

\* Names of archive entries: the four sections, a file of another name and an
\* entry without a file name.
EntryNames == SectionNames \cup {"README", NoFileName}

\* Bytes that do not parse, or the bytes of section id.
Contents ==
    {[parses |-> FALSE, id |-> 1]} \cup {[parses |-> TRUE, id |-> i] : i \in 1..MaxContent}

\* Metadata::load: the metadata section id carries document count id.
parse_metadata(c) ==
    IF c.parses THEN Ok([version |-> "V1", document_count |-> c.id])
    ELSE Err("InvalidIndex")

\* TermIndexer::new leaves tot_documents at 0.
parse_indexer(c) ==
    IF c.parses THEN Ok([index |-> c.id, tot_documents |-> 0])
    ELSE Err("InvalidIndex")

parse_dim_map(c) == IF c.parses THEN Ok(c.id) ELSE Err("InvalidIndex")

\* The error of VectorStore::new is returned as it is.
parse_vector_store(c) ==
    IF c.parses THEN Ok([store |-> c.id, map |-> None]) ELSE Err("IndexedFile")

\* Variant that leaves the store without its map.
set_dim_map_unbound(vstore, dim_map) == vstore

set_dim_map(vstore, dim_map) == [vstore EXCEPT !.map = Some(dim_map)]

\* VectorStore::get_map: self.map.as_ref().expect("set_dim_map was not called")
get_map(vstore) ==
    IF vstore.map = None THEN Err("set_dim_map was not called")
    ELSE Ok(vstore.map[1])

\* Index::get_vector_store: a clone of the store of the Index.
get_vector_store(index) == index.vector_store

\* The accessors of VectorStore that start with self.get_map().
MapAccessors == {"get_map", "get_in_dim", "get_in_dims", "dimension_size"}

set_total_documents(term_indexer, n) == [term_indexer EXCEPT !.tot_documents = n]

\* The loop over archive.entries(): acc holds the four Options; the first
\* entry without a file name or that does not parse ends the loop with its
\* error.
RECURSIVE ReadEntries(_, _)
ReadEntries(entries, acc) ==
    IF entries = <<>> THEN Ok(acc)
    ELSE LET e == Head(entries)
             parsed == CASE e.name = NoFileName -> Err("InvalidIndex")
                         [] e.name = "metadata" -> parse_metadata(e.content)
                         [] e.name = "term_indexer" -> parse_indexer(e.content)
                         [] e.name = "dim_map" -> parse_dim_map(e.content)
                         [] e.name = "vectors" -> parse_vector_store(e.content)
                         [] OTHER -> Ok(None)
         IN IF ~parsed.ok THEN parsed
            ELSE IF e.name \in SectionNames
                 THEN ReadEntries(Tail(entries),
                                  [acc EXCEPT ![e.name] = Some(parsed.val)])
            ELSE ReadEntries(Tail(entries), acc)

\* Variant that takes the sections by position (metadata, term_indexer,
\* dim_map, vectors) instead of by name.
from_archive_by_position(entries) ==
    IF Len(entries) < 4 THEN Err("InvalidIndex")
    ELSE LET read == ReadEntries(
                        <<[entries[1] EXCEPT !.name = "metadata"],
                          [entries[2] EXCEPT !.name = "term_indexer"],
                          [entries[3] EXCEPT !.name = "dim_map"],
                          [entries[4] EXCEPT !.name = "vectors"]>>,
                        [n \in SectionNames |-> None])
         IN IF ~read.ok THEN read
            ELSE Ok([metadata |-> read.val["metadata"][1],
                     indexer |-> set_total_documents(read.val["term_indexer"][1],
                                    read.val["metadata"][1].document_count),
                     vector_store |-> set_dim_map(read.val["vectors"][1],
                                                  read.val["dim_map"][1])])

from_archive(entries) ==
    LET read == ReadEntries(entries, [n \in SectionNames |-> None])
    IN IF ~read.ok THEN read
       ELSE IF \E n \in SectionNames : read.val[n] = None THEN Err("InvalidIndex")
       ELSE Ok([metadata |-> read.val["metadata"][1],
                indexer |-> set_total_documents(read.val["term_indexer"][1],
                               read.val["metadata"][1].document_count),
                vector_store |-> set_dim_map(read.val["vectors"][1],
                                             read.val["dim_map"][1])])

\* The archive whose entries have the names of order, in this order, the
\* sections with the contents c. The content of the file of another name is
\* never looked at.
Archive(order, c) ==
    [i \in 1..Len(order) |->
        [name |-> order[i],
         content |-> IF order[i] \in SectionNames THEN c[order[i]]
                     ELSE [parses |-> FALSE, id |-> 1]]]

FromArchive ==
    /\ phase = "archive"
    /\ result' = Some(from_archive(bytes))
    /\ phase' = "opened"
    /\ UNCHANGED <<vectors, terms, doc_freq, term_freq, order_map,
                   output_filter, calls, returned, indexer, vector_store, map,
                   inv_index, query, sparse, vec, other, value, bytes, metadata>>
    /\ UNCHANGED asyncVars

\* A caller of an opened Index takes its vector store and calls one of the
\* accessors; out is what its get_map() call gives.
GetMap ==
    /\ phase = "opened"
    /\ result[1].ok
    /\ query = None
    /\ \E accessor \in MapAccessors :
          query' = Some([op |-> accessor,
                         out |-> get_map(get_vector_store(result[1].val))])
    /\ UNCHANGED <<phase, vectors, terms, doc_freq, term_freq, order_map,
                   output_filter, calls, returned, indexer, vector_store, map,
                   inv_index, sparse, vec, other, value, bytes, result,
                   metadata>>
    /\ UNCHANGED asyncVars

InitArchive ==
    /\ phase = "archive"
    /\ \E S \in {T \in SUBSET EntryNames : ~({"README", NoFileName} \subseteq T)} :
          \E order \in SeqsOfSet(S), c \in [S \cap SectionNames -> Contents] :
              bytes = Archive(order, c)
    /\ value = <<>>
    /\ result = <<>>
    /\ other = new_empty
    /\ metadata = <<>>
    /\ sparse = <<>>
    /\ vec = new_empty
    /\ vectors = <<>>
    /\ terms = <<>>
    /\ doc_freq = <<>>
    /\ term_freq = <<>>
    /\ order_map = <<>>
    /\ output_filter = None
    /\ calls = <<>>
    /\ returned = <<>>
    /\ indexer = <<>>
    /\ vector_store = <<>>
    /\ map = <<>>
    /\ inv_index = [index |-> <<>>, data |-> <<>>]
    /\ query = None
    /\ InitFuture

NextArchive == FromArchive \/ GetMap

SpecArchive == InitArchive /\ [][NextArchive]_vars

\* The names of the entries of the opened archive.
NamesIn(entries) == {entries[i].name : i \in 1..Len(entries)}

\* The content of the entry called name.
ContentOf(entries, name) ==
    entries[CHOOSE i \in 1..Len(entries) : entries[i].name = name].content

\* The Index made of the four sections, each taken by its name.
IndexOfSections(entries) ==
    [metadata |-> [version |-> "V1",
                   document_count |-> ContentOf(entries, "metadata").id],
     indexer |-> [index |-> ContentOf(entries, "term_indexer").id,
                  tot_documents |-> ContentOf(entries, "metadata").id],
     vector_store |-> [store |-> ContentOf(entries, "vectors").id,
                       map |-> Some(ContentOf(entries, "dim_map").id)]]

AllParse(entries) ==
    \A i \in 1..Len(entries) :
        entries[i].name \in SectionNames => entries[i].content.parses

VectorsParse(entries) ==
    \A i \in 1..Len(entries) :
        entries[i].name = "vectors" => entries[i].content.parses

----------------------------------------------------------------------------
\* C18: after build, the document count of the index metadata is the number
\* of vectors in the built vector store.
C18_MetadataCountsVectors ==
    Built => metadata[1].document_count = len(vector_store)

----------------------------------------------------------------------------
\* C19: metadata bytes whose version byte is not 0 decode to a decode error;
\* a version byte of 0 followed by a count decodes to V1 with this count, and
\* decode(encode(m)) = m for every DefaultMetadata m.
C19_MetadataVersionChecked ==
    /\ (Loaded("DefaultMetadata") /\ Len(bytes[1].rec) >= 1 /\ bytes[1].rec[1] # 0)
          => result[1] = Err("Decode")
    /\ (Loaded("DefaultMetadata") /\ Len(bytes[1].rec) = 9 /\ bytes[1].rec[1] = 0)
          => /\ result[1].ok
             /\ result[1].val.version = "V1"
             /\ u64_le(result[1].val.document_count) = SubSeq(bytes[1].rec, 2, 9)
    /\ RoundTrip("DefaultMetadata") => result[1] = Ok(value[1].val)

\* Nine bytes with an unknown version byte and a count were decoded.
C19_Witness ==
    /\ Loaded("DefaultMetadata")
    /\ Len(bytes[1].rec) = 9
    /\ bytes[1].rec[1] = 255
    /\ bytes[1].rec[2] # 0
    /\ ~result[1].ok

----------------------------------------------------------------------------
\* C20 as stated: for every list of u32 values, decoding the bytes produced
\* by encoding it returns the same elements in the same order; of a list too
\* long to enumerate, the same number of elements.
C20_VecRoundTrip ==
    /\ RoundTrip("Vec<u32>") => result[1] = Ok(value[1].val)
    /\ RoundTrip("len") => result[1] = Ok(value[1].val)

----------------------------------------------------------------------------
\* vector_store.rs: get_all_async, get_async, load_vecs_async and the future
\* AsyncDocRetrieval (specification SpecAsync)

\* The number of vectors one poll decodes at most.
ChunkSize == 200

\* The long candidate lists fill up to MaxChunks chunks, one candidate more
\* or one less.
MaxChunks == 2

\* Poll<Result<Vec<DocumentVector<D>>, Error>>
Ready(x) == [poll |-> "Ready", val |-> x]
Pending == [poll |-> "Pending"]

\* IndexedReader::read_line_raw: the record at position line; an error when
\* the store has no such record.
read_line_raw(store, line) ==
    IF line < Len(store) THEN Ok(store[line + 1]) ELSE Err("IndexedFile")

AsyncDocRetrieval_new(vec_refs) ==
    [vec_refs |-> vec_refs, out |-> <<>>, last_pos |-> 0]

\* The body of the loop of poll for the candidate at vec_pos: the record is
\* read, then decoded.
load_candidate(fut, store, vec_pos) ==
    LET line == read_line_raw(store, fut.vec_refs[vec_pos + 1])
    IN IF line.ok THEN DocumentVector_decode(line.val) ELSE line

\* The vectors of the candidates at start..(stop - 1), which all decode.
pushed(fut, store, start, stop) ==
    [k \in 1..(stop - start) |-> load_candidate(fut, store, start + k - 1).val]

\* Variant of the loop that drops a failure and goes on to the next chunk.
poll_loop_swallow(fut, store, start, end) ==
    LET failed == {vec_pos \in start..(end - 1) :
                      ~load_candidate(fut, store, vec_pos).ok}
        stop == IF failed = {} THEN end
                ELSE CHOOSE f \in failed : \A g \in failed : f <= g
    IN [future |-> [fut EXCEPT !.out = @ \o pushed(fut, store, start, stop),
                               !.last_pos = end],
        poll |-> Pending, wake |-> TRUE]

\* The loop of poll over start..end: it pushes every vector it decodes and
\* returns at the first candidate that fails; having passed them all it
\* moves last_pos, calls wake_by_ref and returns Pending.
poll_loop(fut, store, start, end) ==
    LET failed == {vec_pos \in start..(end - 1) :
                      ~load_candidate(fut, store, vec_pos).ok}
    IN IF failed = {}
       THEN [future |-> [fut EXCEPT !.out = @ \o pushed(fut, store, start, end),
                                    !.last_pos = end],
             poll |-> Pending, wake |-> TRUE]
       ELSE LET stop == CHOOSE f \in failed : \A g \in failed : f <= g
            IN [future |-> [fut EXCEPT
                               !.out = @ \o pushed(fut, store, start, stop)],
                poll |-> Ready(load_candidate(fut, store, stop)),
                wake |-> FALSE]

\* Variant of poll that returns Pending without calling wake_by_ref.
poll_no_wake(fut, store) ==
    LET start == fut.last_pos
    IN IF start >= Len(fut.vec_refs)
       THEN [future |-> [fut EXCEPT !.out = <<>>], poll |-> Ready(Ok(fut.out)),
             wake |-> FALSE]
       ELSE [poll_loop(fut, store, start,
                       Min(Len(fut.vec_refs), fut.last_pos + ChunkSize))
                EXCEPT !.wake = FALSE]

\* AsyncDocRetrieval::poll
poll(fut, store) ==
    LET start == fut.last_pos
    IN IF start >= Len(fut.vec_refs)
       THEN [future |-> [fut EXCEPT !.out = <<>>], poll |-> Ready(Ok(fut.out)),
             wake |-> FALSE]
       ELSE poll_loop(fut, store, start,
                      Min(Len(fut.vec_refs), fut.last_pos + ChunkSize))

\* load_vecs_async up to its await: an empty list is answered at once,
\* otherwise the future is made and handed to the executor, which polls it.
load_vecs_async(vec_refs) ==
    IF vec_refs = <<>>
    THEN [phase |-> "ready", future |-> <<>>, result |-> Some(Ready(Ok(<<>>))),
          waker |-> FALSE]
    ELSE [phase |-> "polling", future |-> Some(AsyncDocRetrieval_new(vec_refs)),
          result |-> <<>>, waker |-> TRUE]

\* get_all_async(dimensions), up to its await.
GetAllAsync ==
    /\ phase = "store_built"
    /\ \E dimensions \in UNION {SeqsOfSet(S) : S \in SUBSET VecDims} :
          /\ query' = Some([dimensions |-> dimensions])
          /\ \E r \in {load_vecs_async(get_in_dims(inv_index, dimensions))} :
                /\ phase' = r.phase
                /\ future' = r.future
                /\ result' = r.result
                /\ waker' = r.waker
    /\ UNCHANGED <<vectors, terms, doc_freq, term_freq, order_map,
                   output_filter, calls, returned, indexer, vector_store, map,
                   inv_index, sparse, vec, other, value, bytes, metadata>>

\* self.get_map().get(dimension).unwrap_or_default()
unwrap_or_default(opt) == IF opt = None THEN <<>> ELSE opt[1]

\* get_async(dimension), up to its await.
GetAsync ==
    /\ phase = "store_opened"
    /\ \E dimension \in 0..1 :
          /\ query' = Some([dimension |-> dimension])
          /\ \E r \in {load_vecs_async(
                           unwrap_or_default(get(inv_index, dimension)))} :
                /\ phase' = r.phase
                /\ future' = r.future
                /\ result' = r.result
                /\ waker' = r.waker
    /\ UNCHANGED <<vectors, terms, doc_freq, term_freq, order_map,
                   output_filter, calls, returned, indexer, vector_store, map,
                   inv_index, sparse, vec, other, value, bytes, metadata>>

\* The executor polls the task when it was woken (the first poll is the
\* await itself); a future that returned Ready is not polled again.
Poll ==
    /\ phase = "polling"
    /\ waker
    /\ \E r \in {poll(future[1], vector_store)} :
          /\ future' = Some(r.future)
          /\ result' = Some(r.poll)
          /\ waker' = r.wake
          /\ phase' = IF r.poll = Pending THEN "polling" ELSE "ready"
    /\ UNCHANGED <<vectors, terms, doc_freq, term_freq, order_map,
                   output_filter, calls, returned, indexer, vector_store, map,
                   inv_index, query, sparse, vec, other, value, bytes, metadata>>

\* The record of the vector with ID id in a long store.
StoreRecord(id) ==
    DocumentVector_encode(
        DocumentVector_new(id, create_new_raw(<<<<id % 2, 1>>>>)))

\* A record that announces more pairs than it holds.
CorruptRecord(id) == [StoreRecord(id) EXCEPT !.n_dims = 2]

\* The numbers of candidates of the long lists.
CandidateCounts ==
    {c * ChunkSize + d : c \in 0..MaxChunks, d \in {-1, 0, 1}} \ {-1}

\* The candidate positions at which a long store may fail.
FailPositions(k) == {0, ChunkSize - 1, ChunkSize, k - 1} \cap (0..(k - 1))

\* Every stride-th ID, k of them: ascending and without duplicates, as
\* get and get_in_dims return them.
StridedRefs(k, stride) == [i \in 1..k |-> stride * (i - 1)]

\* A store holding the vectors 0..n-1, the record of ID bad (if any) corrupt.
LongStore(n, bad) ==
    [i \in 1..n |-> IF bad # None /\ bad[1] = i - 1
                    THEN CorruptRecord(i - 1) ELSE StoreRecord(i - 1)]

\* The inverted index NewDimVecMap::build writes for a map whose only key is
\* dimension 0, its posting being vec_refs.
SinglePosting(vec_refs) ==
    [index |-> <<0>>, data |-> <<Len(vec_refs)>> \o vec_refs]

\* The vectors of a short store: vector i lies in the dims docs[i].
ShortStoreVectors(docs) ==
    [i \in 1..Len(docs) |->
        DocumentVector_new(i - 1, create_new_raw(UnitPairs(docs[i])))]

\* vector_store::build and NewDimVecMap::build for up to MaxDocs vectors,
\* the map bound to the store.
BuildStore ==
    /\ phase = "no_store"
    /\ \E docs \in SeqsUpTo(UNION {SeqsOfSet(S) : S \in SUBSET VecDims}, MaxDocs) :
          LET vs == ShortStoreVectors(docs)
          IN /\ vector_store' = encoded_vectors(vs)
             /\ inv_index' = NewDimVecMap_build(dim_vec_map(vs, 0, <<>>))
    /\ phase' = "store_built"
    /\ UNCHANGED <<vectors, terms, doc_freq, term_freq, order_map,
                   output_filter, calls, returned, indexer, map, query,
                   sparse, vec, other, value, bytes, result, metadata,
                   future, waker>>

\* VectorStore::new and set_dim_map on the files of a long index: dimension
\* 0 holds every stride-th vector, k of them; the vectors file is whole, or
\* has one corrupt record, or ends early.
OpenStore ==
    /\ phase = "no_store"
    /\ \E k \in CandidateCounts \ {0}, stride \in {1, 2} :
          LET vec_refs == StridedRefs(k, stride)
          IN /\ inv_index' = SinglePosting(vec_refs)
             /\ \/ vector_store' = LongStore(vec_refs[k] + 1, None)
                \/ \E pos \in FailPositions(k) :
                      \/ vector_store' =
                            LongStore(vec_refs[k] + 1, Some(vec_refs[pos + 1]))
                      \/ vector_store' = LongStore(vec_refs[pos + 1], None)
    /\ phase' = "store_opened"
    /\ UNCHANGED <<vectors, terms, doc_freq, term_freq, order_map,
                   output_filter, calls, returned, indexer, map, query,
                   sparse, vec, other, value, bytes, result, metadata,
                   future, waker>>

InitAsync ==
    /\ phase = "no_store"
    /\ InitFuture
    /\ InitPure
    /\ sparse = <<>>
    /\ vec = new_empty
    /\ vectors = <<>>
    /\ terms = <<>>
    /\ doc_freq = <<>>
    /\ term_freq = <<>>
    /\ order_map = <<>>
    /\ output_filter = None
    /\ calls = <<>>
    /\ returned = <<>>
    /\ indexer = <<>>
    /\ vector_store = <<>>
    /\ map = <<>>
    /\ inv_index = [index |-> <<>>, data |-> <<>>]
    /\ query = None

NextAsync == BuildStore \/ OpenStore \/ GetAllAsync \/ GetAsync \/ Poll

\* The executor polls a task that was woken.
SpecAsync ==
    /\ InitAsync
    /\ [][NextAsync]_vars
    /\ WF_vars(Poll)

\* The candidate list of the retrieval under way.
Candidates ==
    IF query = None THEN <<>>
    ELSE IF "dimension" \in DOMAIN query[1]
         THEN unwrap_or_default(get(inv_index, query[1].dimension))
         ELSE get_in_dims(inv_index, query[1].dimensions)

\* Reading and decoding the candidate at position i (from 1).
LoadCandidate(i) ==
    LET line == read_line_raw(vector_store, Candidates[i])
    IN IF line.ok THEN DocumentVector_decode(line.val) ELSE line

NoLoadFails == \A i \in 1..Len(Candidates) : LoadCandidate(i).ok

\* C21: when no read or decode fails, each poll adds at most ChunkSize
\* vectors to the output, a poll that returned Pending has requested a
\* wake-up, the retrieval ends, and it ends with Ready(Ok(list)) where the
\* list holds the vector of each candidate ID once, in the (ascending) order
\* of the candidates.
C21_ChunkedRetrievalCompletes ==
    /\ [][(NoLoadFails /\ future # <<>> /\ future' # <<>>)
             => Len(future'[1].out) <= Len(future[1].out) + ChunkSize]_vars
    /\ [](NoLoadFails /\ result # <<>> /\ result[1] = Pending => waker)
    /\ [](NoLoadFails /\ phase = "ready"
            => /\ result[1].poll = "Ready"
               /\ result[1].val.ok
               /\ Len(result[1].val.val) = Len(Candidates)
               /\ \A i \in 1..Len(Candidates) :
                     /\ result[1].val.val[i] = LoadCandidate(i).val
                     /\ result[1].val.val[i].document = Candidates[i]
                     /\ i > 1 => Candidates[i - 1] < Candidates[i])
    /\ [](phase = "polling" /\ NoLoadFails => <>(phase = "ready"))

\* A retrieval of two full chunks and one more vector has ended with all of
\* them, after a poll that returned Pending.
C21_Witness ==
    /\ phase = "ready"
    /\ NoLoadFails
    /\ Len(Candidates) = 2 * ChunkSize + 1
    /\ result[1].val.ok
    /\ Len(result[1].val.val) = 2 * ChunkSize + 1
    /\ future[1].last_pos = 2 * ChunkSize + 1

----------------------------------------------------------------------------
\* The last call made.
LastCall == calls[Len(calls)]

\* The step is a call of insert_new_vec.
IsInsertNewVec ==
    /\ phase = "building"
    /\ Len(calls') = Len(calls) + 1
    /\ calls'[Len(calls')].kind = "new"

\* The step is a build that returned an Index.
IsBuild == phase = "building" /\ phase' = "built"

\* C22: two builds fed the same calls produce the same term store, inverted
\* index and encoded vectors: every step of a build leaves what it would
\* leave under any other iteration order of its hash containers (the set of
\* dimensions in insert_new_vec, the term map in build_order_map and in
\* build_from_termstore, the dimension map in NewDimVecMap::build).
C22_BuildIgnoresHashOrder ==
    [][/\ IsInsertNewVec =>
            LET doc_id == Len(vectors)
                ids == {terms'[t] : t \in Range(calls'[Len(calls')].terms)}
            IN \A dimensions \in SeqsOfSet(ids) :
                  /\ doc_freq' = update_doc_freq(doc_freq, dimensions)
                  /\ vectors' = Append(vectors, DocumentVector_new(doc_id,
                        create_new_raw([k \in 1..Len(dimensions) |->
                                           <<dimensions[k], 1>>])))
       /\ IsBuild =>
            /\ \A term_vec \in SeqsOfSet({<<t, terms[t]>> : t \in DOMAIN terms}) :
                  order_map' = build_order_map(terms, term_vec)
            /\ \A list \in SeqsOfSet(DOMAIN terms) :
                  indexer' = build_from_termstore_in(terms, doc_freq, order_map', list)
            /\ \A keys \in SeqsOfSet(DOMAIN map') :
                  sorted_map(keys) = SortedKeys(map')
      ]_vars

\* An index was built from a document that insert_new_vec was given two
\* different terms for, the later term sorting before the earlier one.
C22_Witness ==
    /\ Built
    /\ \E i \in 1..Len(calls) :
          /\ calls[i].kind = "new"
          /\ Len(calls[i].terms) = 2
          /\ LexLess(calls[i].terms[2], calls[i].terms[1])
    /\ \E id \in DOMAIN order_map : order_map[id] # id
    /\ Len(vector_store) >= 1

----------------------------------------------------------------------------
\* build/term_store.rs: adjust_vecs with a TermWeight configured
\* (specification SpecWeighted)

\* self.get_term_freq(old_dim, doc_id).unwrap_or(0)
tf_or_zero(tf, old_dim, doc_id) ==
    LET f == get_term_freq(tf, old_dim, doc_id) IN IF f = None THEN 0 ELSE f[1]

\* self.doc_freq.get(&old_dim).copied().unwrap_or(0)
df_or_zero(df, old_dim) == IF old_dim \in DOMAIN df THEN df[old_dim] ELSE 0

\* The TermWeight the builder was given: one that returns the raw term
\* frequency.
TermWeight_weight(tf, df, total_docs) == tf

\* The arguments of the calls of w.weight adjust_vecs makes: one call for
\* each pair of each vector.
weight_calls(ves, tf, df) ==
    UNION {{[term |-> Dim(ves[i].vec.inner[k]), doc |-> i - 1,
             tf |-> tf_or_zero(tf, Dim(ves[i].vec.inner[k]), i - 1),
             df |-> df_or_zero(df, Dim(ves[i].vec.inner[k])),
             total_docs |-> Len(ves)] : k \in 1..Len(ves[i].vec.inner)} :
           i \in 1..Len(ves)}

\* adjust_vecs with a TermWeight: every dim goes through order_map, the
\* weight is what w.weight returns, the vector is rebuilt with create_new_raw.
adjust_vecs_weighted(om, ves, tf, df) ==
    [i \in 1..Len(ves) |->
        [ves[i] EXCEPT !.vec =
            create_new_raw([k \in 1..Len(ves[i].vec.inner) |->
                <<om[Dim(ves[i].vec.inner[k])],
                  TermWeight_weight(
                      tf_or_zero(tf, Dim(ves[i].vec.inner[k]), i - 1),
                      df_or_zero(df, Dim(ves[i].vec.inner[k])),
                      Len(ves))>>])]]

\* with_weight(w) followed by build(metadata).
BuildWeighted ==
    /\ phase = "building"
    /\ \E metadata_in \in Metadatas,
          term_vec \in SeqsOfSet({<<t, terms[t]>> : t \in DOMAIN terms}) :
         LET om == build_order_map(terms, term_vec)
             adjusted == adjust_vecs_weighted(om, vectors, term_freq, doc_freq)
         IN /\ order_map' = om
            /\ result' = Some(weight_calls(vectors, term_freq, doc_freq))
            /\ IF build_from_termstore_panics(terms, doc_freq)
               THEN /\ phase' = "panicked"
                    /\ vectors' = adjusted
                    /\ UNCHANGED <<indexer, vector_store, map, inv_index,
                                   metadata>>
               ELSE LET kept == filter_map(output_filter, adjusted)
                        m == dim_vec_map(kept, 0, <<>>)
                    IN /\ phase' = "built"
                       /\ vectors' = kept
                       /\ indexer' = build_from_termstore(terms, doc_freq, om)
                       /\ map' = m
                       /\ inv_index' = NewDimVecMap_build(m)
                       /\ vector_store' = encoded_vectors(kept)
                       /\ metadata' =
                             Some(build_metadata(metadata_in, encoded_vectors(kept)))
    /\ UNCHANGED <<other, value, bytes>>
    /\ UNCHANGED <<terms, doc_freq, term_freq, output_filter, calls, returned,
                   query, sparse, vec>>
    /\ UNCHANGED asyncVars

NextWeighted ==
    InsertNewVec \/ InsertNewWeightedVec \/ InsertCustomVec \/ BuildWeighted

SpecWeighted == Init /\ [][NextWeighted]_vars

\* C23: in a build with a TermWeight, every call of the weight function is
\* given a term frequency and a document frequency of at least 1, whatever
\* insert calls were made.
C23_WeightArgsPositive ==
    result # <<>> => \A c \in result[1] : c.tf >= 1 /\ c.df >= 1

----------------------------------------------------------------------------
\* The weight vector v holds for dim d.
WeightAt(v, d) == Weight(v.inner[CHOOSE k \in 1..Len(v.inner) : Dim(v.inner[k]) = d])

\* C24: for two streams strictly ascending by dim, LockStepIter yields one
\* triple (dim, value_a, value_b) for exactly the dims present in both, each
\* once and in ascending order, and makes at most len(a) + len(b) advances.
C24_LockStepYieldsSharedDims ==
    (/\ result # None
     /\ result[1].op = "overlapping"
     /\ IsStrictlyAscending(Dims(vec.inner))
     /\ IsStrictlyAscending(Dims(other.inner)))
        => LET out == result[1].out
           IN /\ Range(Dims(out)) = Range(Dims(vec.inner)) \cap Range(Dims(other.inner))
              /\ IsStrictlyAscending(Dims(out))
              /\ \A i \in 1..Len(out) :
                    /\ out[i][2] = WeightAt(vec, out[i][1])
                    /\ out[i][3] = WeightAt(other, out[i][1])
              /\ result[1].advances <= Len(vec.inner) + Len(other.inner)

\* Two streams that share their first and last dim and not the one between,
\* with different values: two triples, after every item was advanced over.
C24_Witness ==
    /\ result # None
    /\ result[1].op = "overlapping"
    /\ Len(vec.inner) = 3
    /\ Len(other.inner) = 2
    /\ Len(result[1].out) = 2
    /\ result[1].out[1][2] # result[1].out[1][3]
    /\ result[1].out[2][1] = last_indice(vec)
    /\ result[1].advances = 5

\* ---------------------------------------------------------------------------
\* The Vector of document_vector.rs (behind DocumentVector::add_term) beside
\* the Vector of vector.rs: the same (dim, weight) pairs and length, its own
\* delete_dim.
\* ---------------------------------------------------------------------------

\* document_vector.rs Vector::has_dim: a linear scan over the dimensions.
document_vector_has_dim(v, dim) == dim \in Range(Dims(v.inner))

\* document_vector.rs Vector::delete_dim: retain(|(curr_dim, _)| *curr_dim == dim).
document_vector_delete_dim(v, dim) ==
    [v EXCEPT !.inner = SelectSeq(@, LAMBDA p : Dim(p) = dim)]

\* Vector::add_single_term; indexed is what index.index().get_term(term)
\* found (the term's dimension) and weight the product pushed for it.
add_single_term(v, indexed, skip_existing, weight) ==
    IF indexed = None THEN v
    ELSE LET dimension == indexed[1]
             dim_used == document_vector_has_dim(v, dimension)
         IN IF dim_used /\ skip_existing THEN v
            ELSE LET kept == IF dim_used
                             THEN document_vector_delete_dim(v, dimension)
                             ELSE v
                 IN [kept EXCEPT !.inner = Append(@, <<dimension, weight>>)]

\* Vector::add_term: add_single_term, then update (length, sort and dedup).
add_term(v, indexed, skip_existing, weight) ==
    update(add_single_term(v, indexed, skip_existing, weight))

AddTerm ==
    /\ phase = "word_vec"
    /\ \E indexed \in {None} \cup {Some(d) : d \in 0..MaxPairDim},
          skip_existing \in BOOLEAN, weight \in Weights :
            /\ vec' = add_term(vec, indexed, skip_existing, weight)
            /\ query' = Some([indexed |-> indexed, skip_existing |-> skip_existing,
                              weight |-> weight])
    /\ UNCHANGED pureVars
    /\ UNCHANGED <<phase, vectors, terms, doc_freq, term_freq, order_map,
                   output_filter, calls, returned, indexer, vector_store, map,
                   inv_index, sparse>>
    /\ UNCHANGED asyncVars

\* An updated vector of either implementation: pairs ascending by dimension,
\* one per dimension, with the length computed from them.
InitDelete ==
    /\ InitPure
    /\ phase \in {"vec_updated", "word_vec"}
    /\ sparse = <<>>
    /\ \E s \in StreamsA : vec = new_raw(s, SumSq(s))
    /\ vectors = <<>>
    /\ terms = <<>>
    /\ doc_freq = <<>>
    /\ term_freq = <<>>
    /\ order_map = <<>>
    /\ output_filter = None
    /\ calls = <<>>
    /\ returned = <<>>
    /\ indexer = <<>>
    /\ vector_store = <<>>
    /\ map = <<>>
    /\ inv_index = [index |-> <<>>, data |-> <<>>]
    /\ query = None
    /\ InitFuture

NextDelete == DeleteDim \/ AddTerm

SpecDelete == InitDelete /\ [][NextDelete]_vars

\* The pairs of dimensions other than d are the same, in the same order.
KeepsOtherPairs(before, after, d) ==
    SelectSeq(after.inner, LAMBDA p : Dim(p) # d)
        = SelectSeq(before.inner, LAMBDA p : Dim(p) # d)

\* C25: in every Vector implementation, delete_dim(d) removes the pair of
\* dimension d and leaves every other pair unchanged: a delete_dim step of
\* vector.rs drops one dimension and keeps the rest, and an add_term with
\* skip_existing = false on the Vector of document_vector.rs keeps every pair
\* of the dimensions other than the term's.
C25_DeleteDimKeepsOtherPairs ==
    [][/\ (phase \in {"vec_updated", "vec_dirty"} /\ phase' = "vec_dirty")
            => \E d \in VecDims :
                    /\ d \notin Range(Dims(vec'.inner))
                    /\ KeepsOtherPairs(vec, vec', d)
       /\ (phase = "word_vec" /\ query' # None /\ query'[1].indexed # None
              /\ ~query'[1].skip_existing)
            => KeepsOtherPairs(vec, vec', query'[1].indexed[1])]_vars

\* C26: in every built index the doc_frequency stored for a term equals the
\* number of vector IDs in the posting of the term's dimension
\* (dimension_size), for every term of the term indexer.
C26_DocFreqIsPostingSize ==
    Built =>
        \A k \in 1..Len(indexer) :
            iter(indexer)[k].doc_frequency = dimension_size(inv_index, k - 1)

\* The terms passed to get_or_add_term so far, call after call, in the order
\* of the calls.
RECURSIVE TermsSeen(_)
TermsSeen(k) == IF k = 0 THEN <<>> ELSE TermsSeen(k - 1) \o calls[k].terms

\* The number of distinct terms seen before the first appearance of t.
FirstAppearance(t) ==
    LET seen  == TermsSeen(Len(calls))
        first == CHOOSE i \in 1..Len(seen) :
                     /\ seen[i] = t
                     /\ \A j \in 1..(i - 1) : seen[j] # t
    IN Cardinality({seen[j] : j \in 1..(first - 1)})

\* C27: after any sequence of get_or_add_term calls the assigned term IDs
\* are exactly 0..n-1 for the n distinct terms seen, numbered in order of
\* first appearance; a call with a known term returns the existing ID (the
\* inserted vector carries, as its dimensions, the IDs of its terms) and
\* leaves the store unchanged (no ID ever changes, and a call whose terms are
\* all known leaves terms as it was).
C27_TermIdsDenseInFirstAppearanceOrder ==
    /\ [](/\ DOMAIN terms = InsertedTerms
          /\ {terms[t] : t \in DOMAIN terms} = 0..(Cardinality(InsertedTerms) - 1)
          /\ \A t \in DOMAIN terms : terms[t] = FirstAppearance(t)
          /\ phase = "building" =>
                \A k \in 1..Len(calls) :
                    Range(vec_indices(vectors[k].vec))
                        = {terms[t] : t \in Range(calls[k].terms)})
    /\ [][/\ \A t \in DOMAIN terms : t \in DOMAIN terms' /\ terms'[t] = terms[t]
          /\ (Len(calls') > Len(calls)
                 /\ Range(LastCall'.terms) \subseteq DOMAIN terms)
               => terms' = terms]_vars

\* Both terms are in the store, the byte-lexicographically larger one first,
\* and a later call passed only terms that were already known.
C27_Witness ==
    /\ phase = "building"
    /\ DOMAIN terms = Terms
    /\ \E t \in Terms, u \in Terms : LexLess(u, t) /\ terms[t] = 0 /\ terms[u] = 1
    /\ \E k \in 2..Len(calls) :
          /\ calls[k].terms # <<>>
          /\ Range(calls[k].terms) \subseteq Range(TermsSeen(k - 1))


\* C28: decoded_map() on an index built by NewDimVecMap::build completes
\* without panicking for every input map, also when the keys leave gaps, and
\* returns for each dimension that has a posting exactly that posting.
C28_DecodedMapCompletes ==
    (query # None /\ query[1].op = "decoded_map") =>
        /\ phase # "panicked"
        /\ \A d \in 0..(Len(inv_index.index) - 1) :
              get(inv_index, d) # None =>
                  /\ d \in DOMAIN query[1].out
                  /\ query[1].out[d] = get(inv_index, d)[1]

\* The positions (from 1) of the candidates whose read or decode fails, and
\* the first of them.
FailingCandidates == {i \in 1..Len(Candidates) : ~LoadCandidate(i).ok}

FirstOf(S) == CHOOSE f \in S : \A g \in S : f <= g

\* C29: if reading or decoding a candidate fails during a poll of the async
\* retrieval future, that poll returns Ready with the error, no candidate
\* after the failing one is decoded (the output never holds more than the
\* vectors of the candidates before it), and the vectors decoded so far are
\* not returned: the retrieval ends with that error as its result.
C29_FailingPollReturnsError ==
    /\ [](future # <<>> =>
            \A failing \in {FailingCandidates} :
                failing # {} =>
                    \A first \in {FirstOf(failing)} :
                        /\ Len(future[1].out) < first
                        /\ phase = "ready" =>
                              /\ result = Some(Ready(LoadCandidate(first)))
                              /\ ~result[1].val.ok
                              /\ Len(future[1].out) = first - 1)
    /\ [][(future # <<>> /\ phase = "polling" /\ future' # future)
             => \A failing \in {FailingCandidates} :
                    (/\ failing # {}
                     /\ future[1].last_pos + ChunkSize >= FirstOf(failing))
                        => /\ phase' = "ready"
                           /\ result'[1].poll = "Ready"
                           /\ ~result'[1].val.ok
                           /\ future'[1].last_pos = future[1].last_pos]_vars

\* A retrieval has ended with an error at the first candidate of the second
\* chunk, after a poll that decoded the whole first chunk.
C29_Witness ==
    /\ phase = "ready"
    /\ future # <<>>
    /\ FailingCandidates # {}
    /\ FirstOf(FailingCandidates) = ChunkSize + 1
    /\ Len(future[1].out) = ChunkSize
    /\ future[1].last_pos = ChunkSize
    /\ ~result[1].val.ok

\* C30: the VectorStore of every successfully opened Index has its dimension
\* map bound, so that no accessor going through get_map hits the
\* "set_dim_map was not called" panic, and the term indexer's total document
\* count equals metadata.document_count.
C30_OpenedIndexIsBound ==
    /\ (phase = "opened" /\ result[1].ok) =>
          /\ get_vector_store(result[1].val).map # None
          /\ result[1].val.indexer.tot_documents
                = result[1].val.metadata.document_count
    /\ (query # None /\ query[1].op \in MapAccessors) => query[1].out.ok

\* dimension_size was called on the store of an opened Index whose metadata
\* holds a document count other than the 0 of a fresh term indexer.
C30_Witness ==
    /\ phase = "opened"
    /\ result[1].ok
    /\ result[1].val.metadata.document_count = MaxContent
    /\ result[1].val.indexer.tot_documents = MaxContent
    /\ query # None
    /\ query[1].op = "dimension_size"
    /\ query[1].out.ok

====
